---- MODULE Spec2Model ----
\* KeycapStudio: the off-thread export shim (core/csg/csgEvaluator.js and
\* workers/stlExportWorker.js), the Export geometry cache of
\* core/geometry/geometryEngine.js, the Preview geometry cache of
\* components/canvas/Keycap.jsx and the AsyncKeycapGenerator cache.
EXTENDS Integers, Sequences, FiniteSets, TLC

\* ------------------------------------------------------------------ bounds
MaxReq == 3
MaxWorkers == 2
MaxCrashes == 1
MaxEvals == 3
MaxLookups == 3
MaxAsyncCalls == 3
MaxModeChanges == 2
MaxTreeEvals == 2
MaxFailAt == 3
MaxProjectOps == 4
MaxSceneOps == 3
MaxAssetOps == 3
MaxExportCalls == 2
MaxFillCalls == 18
MaxFillHits == 2
MaxPreviewFill == 23
MaxHistoryOps == 105
HistoryMargin == 2

\* ------------------------------------------------------------- variables
VARIABLES
    _worker,        \* csgEvaluator.js `_worker`: 0 is null, else the worker's number
    _exportQueue,   \* csgEvaluator.js `_exportQueue`: the {resolve, reject} pairs, by request
    nWorkers,       \* how many Worker objects were constructed
    inbox,          \* per worker: request messages posted and not yet handled by it
    outbox,         \* per worker: events it raised, not yet delivered to the main thread
    reqs,           \* per _exportInWorker call: its scene, its promise, its exportSceneSTL call
    settledOrder,   \* request numbers in the order their promises were settled
    crashed,        \* workers whose onerror handler has run
    nCrashes,       \* how many error events the workers raised
    _keycapGeometryCache,  \* geometryEngine.js: cache key -> the stored BufferGeometry
    heap,           \* the BufferGeometry objects created so far, by object number
    generateSpy,    \* params of the generate calls since the cache was last cleared
    evaluated,      \* params of the Export evaluations since the cache was last cleared
    meshes,         \* the meshes evalNode returned: their geometry, colour and node params
    _geoCache,      \* Keycap.jsx `_geoCache`: <<key, geometry object>> in insertion order
    pvHeap,         \* the preview BufferGeometry objects created so far
    lookups,        \* what each _getPreviewGeometry call returned
    agCache,        \* AsyncKeycapGenerator.cache: <<key, result>> in Map order
    agMode,         \* asyncGenerator.generator.performanceMode
    agTimers,       \* the setTimeout callbacks of generateAsync / generatePreviewAsync, pending
    agHits,         \* what the cache hits of generateAsync / generatePreviewAsync returned
    agCalls,        \* how many generateAsync / generatePreviewAsync calls were made
    agModeChanges,  \* how many times handleModeChange ran
    evalRun,        \* the last evalNode call on a whole tree: result, operator calls, trace
    nEvalRuns,      \* how many trees were evaluated
    project,        \* projectStore.js `project`
    past,           \* projectStore.js `past`: the undo stack of serialised snapshots
    future,         \* projectStore.js `future`: the redo stack
    isDirty,        \* projectStore.js `isDirty`
    exactPast,      \* the projects behind the snapshots of `past`, as they were
    exactFuture,    \* the projects behind the snapshots of `future`, as they were
    lastProjectOp,  \* the last project store call: its name, the project before, if it threw
    nProjectOps,    \* how many project store calls were made
    sceneDoc,       \* sceneStore `scene`: the document, with its root node
    selectedId,     \* sceneStore `selectedId`
    _idCounter,     \* sceneDocument.js `_idCounter`
    lastSceneOp,    \* the last scene store call: its name and arguments
    nSceneOps,      \* how many scene store calls were made
    asset,          \* assetStore `asset`: the document in memory
    assetDirty,     \* assetStore `isDirty`
    keycapParams,   \* keycapStore `params`
    lastAssetOp,    \* the last asset store call
    nAssetOps,       \* how many asset store calls were made
    lockRef,        \* useExportController `lockRef.current`
    isExporting,    \* useExportController state `isExporting`
    stage,          \* useExportController state `stage`
    exportError,    \* useExportController state `error`: "" is null
    toasts,         \* the showToast calls: <<message, type>>
    stageTimers,    \* how many `setTimeout(() => setStage(''), 150)` are pending
    exportCalls,     \* the runExport calls: where each is, its opts and task
    agUses,         \* the cache keys by their last use (insertion or hit), least recent first
    agEvicted,      \* the last eviction: the key dropped and the least recently used key then
    nFresh          \* how many different params the generator was asked for

shimVars == <<_worker, _exportQueue, nWorkers, inbox, outbox, reqs, settledOrder,
              crashed, nCrashes>>

ecVars == <<_keycapGeometryCache, heap, generateSpy, evaluated, meshes>>

pvVars == <<_geoCache, pvHeap, lookups>>

agVars == <<agCache, agMode, agTimers, agHits, agCalls, agModeChanges>>

evVars == <<evalRun, nEvalRuns>>

psVars == <<project, past, future, isDirty, exactPast, exactFuture, lastProjectOp,
            nProjectOps>>

scVars == <<sceneDoc, selectedId, _idCounter, lastSceneOp, nSceneOps>>

asVars == <<asset, assetDirty, keycapParams, lastAssetOp, nAssetOps>>

xcVars == <<lockRef, isExporting, stage, exportError, toasts, stageTimers, exportCalls>>

fillVars == <<agUses, agEvicted, nFresh>>

vars == <<shimVars, ecVars, pvVars, agVars, evVars, psVars, scVars, asVars, xcVars, fillVars>>

\* What each component leaves alone.
otherThanShim == <<ecVars, pvVars, agVars, evVars, psVars, scVars, asVars, xcVars, fillVars>>
otherThanExportCache == <<shimVars, pvVars, agVars, evVars, psVars, scVars, asVars, xcVars, fillVars>>
otherThanPreview == <<shimVars, ecVars, agVars, evVars, psVars, scVars, asVars, xcVars, fillVars>>
otherThanAsync == <<shimVars, ecVars, pvVars, evVars, psVars, scVars, asVars, xcVars, fillVars>>
otherThanEval == <<shimVars, pvVars, agVars, psVars, scVars, asVars, xcVars, fillVars>>
otherThanProject == <<shimVars, ecVars, pvVars, agVars, evVars, scVars, asVars, xcVars, fillVars>>
otherThanScene == <<shimVars, ecVars, pvVars, agVars, evVars, psVars, asVars, xcVars, fillVars>>
otherThanAsset == <<shimVars, ecVars, pvVars, agVars, evVars, scVars, xcVars, fillVars>>
otherThanExportCtl == <<shimVars, ecVars, pvVars, agVars, evVars, psVars, scVars, asVars, fillVars>>
otherThanFill == <<shimVars, ecVars, pvVars, evVars, psVars, scVars, asVars, xcVars>>

\* ------------------------------------------------ the export worker shim

\* The literal exportSceneSTL compares the rejection's message with.
WORKER_UNAVAILABLE == "worker_unavailable"

\* A scene document handed to exportSceneSTL. `cloneable` is whether the
\* structured clone of postMessage accepts it; `evalErr` is the message of the
\* error evalScene(scene, 'export') throws for it, or "none".
Scenes ==
    {[cloneable |-> TRUE,  evalErr |-> "none"],
     [cloneable |-> TRUE,  evalErr |-> "boom"],
     [cloneable |-> TRUE,  evalErr |-> WORKER_UNAVAILABLE],
     [cloneable |-> FALSE, evalErr |-> "none"]}

\* event.message of an error event (`event.message ?? 'Worker error'`).
CrashMsgs == {"boom", "Worker error"}

NoValue == [kind |-> "none", of |-> 0, origin |-> "none", msg |-> ""]
\* new Uint8Array(e.data.buffer): the STL bytes computed from request r's scene.
Bytes(r, origin) == [kind |-> "bytes", of |-> r, origin |-> origin, msg |-> ""]
\* new Error(msg), tagged with the place that created it.
Err(origin, msg) == [kind |-> "err", of |-> 0, origin |-> origin, msg |-> msg]

\* Whether the catch block of exportSceneSTL takes the main-thread fallback.
TakesFallback(workerErr) == workerErr.msg = WORKER_UNAVAILABLE

\* The error exportSceneSTL throws when the fallback evaluation throws.
SurfacedAfterFallback(workerErr, fallbackErr) == fallbackErr

\* exportSceneSTL after `await _exportInWorker(scene)` settles, for request r
\* whose promise was settled as rq says.  The continuation of an await runs as
\* a microtask of the task that settled the promise, before any other worker
\* event is delivered, so it is part of the settling handler's step.
ExportResume(rq, r) ==
    IF rq.promise = "resolved"
    THEN [rq EXCEPT !.call = "done", !.out = rq.value]
    ELSE IF ~TakesFallback(rq.value)
    THEN [rq EXCEPT !.call = "failed", !.out = rq.value]
    ELSE IF rq.scene.evalErr = "none"
    THEN [rq EXCEPT !.call = "done", !.usedFallback = TRUE,
                    !.out = Bytes(r, "fallback")]
    ELSE [rq EXCEPT !.call = "failed", !.usedFallback = TRUE,
                    !.out = SurfacedAfterFallback(rq.value,
                                Err("fallback", rq.scene.evalErr))]

\* A promise is settled by the first resolve/reject call only; later calls on
\* the same pair are counted and otherwise ignored.
Settle(rq, r, state, value) ==
    IF rq.promise = "pending"
    THEN ExportResume([rq EXCEPT !.promise = state, !.value = value,
                                 !.settleCalls = @ + 1], r)
    ELSE [rq EXCEPT !.settleCalls = @ + 1]

NoteSettled(order, rs, r) ==
    IF rs[r].promise = "pending" THEN Append(order, r) ELSE order

\* Array.prototype.pop in place of shift: the newest entry is taken.
QueuePop(q) == [cb |-> q[Len(q)], rest |-> SubSeq(q, 1, Len(q) - 1)]

\* Array.prototype.shift on _exportQueue: the entry it returns and what is left.
QueueShift(q) == [cb |-> Head(q), rest |-> Tail(q)]

NewRequest(scene) ==
    [scene |-> scene, promise |-> "pending", value |-> NoValue, settleCalls |-> 0,
     postedTo |-> 0, responded |-> FALSE, call |-> "awaitWorker",
     out |-> NoValue, usedFallback |-> FALSE]

\* _getOrCreateWorker without the early return: a worker per call.
NeverLive(cur) == FALSE

\* `if (_worker) return _worker` in _getOrCreateWorker.
LiveHandle(cur) == cur # 0

\* exportSceneSTL up to `await _exportInWorker(scene)`, for a scene with a
\* root: _exportInWorker with _getOrCreateWorker inlined.  ctorOK is whether
\* `new Worker(...)` succeeds when it is called.
ExportInWorker(scene, ctorOK) ==
    /\ Len(reqs) < MaxReq
    /\ LET r == Len(reqs) + 1
           rq == NewRequest(scene)
           unavailable(origin) ==
               Settle(rq, r, "rejected", Err(origin, WORKER_UNAVAILABLE))
       IN
       IF ~LiveHandle(_worker) /\ ~ctorOK
       THEN \* new Worker throws: nothing was pushed
            /\ reqs' = Append(reqs, unavailable("construct"))
            /\ settledOrder' = Append(settledOrder, r)
            /\ UNCHANGED <<_worker, _exportQueue, nWorkers, inbox>>
       ELSE /\ (~LiveHandle(_worker) => nWorkers < MaxWorkers)
            /\ LET w == IF ~LiveHandle(_worker) THEN nWorkers + 1 ELSE _worker IN
               /\ _worker' = w
               /\ nWorkers' = IF ~LiveHandle(_worker) THEN nWorkers + 1 ELSE nWorkers
               /\ _exportQueue' = Append(_exportQueue, r)
               /\ IF scene.cloneable
                  THEN /\ inbox' = [inbox EXCEPT ![w] = Append(@, r)]
                       /\ reqs' = Append(reqs, [rq EXCEPT !.postedTo = w])
                       /\ UNCHANGED settledOrder
                  ELSE \* postMessage throws after the push
                       /\ reqs' = Append(reqs, unavailable("post"))
                       /\ settledOrder' = Append(settledOrder, r)
                       /\ UNCHANGED inbox
    /\ UNCHANGED <<outbox, crashed, nCrashes>>
    /\ UNCHANGED otherThanShim

\* stlExportWorker.js self.onmessage: one postMessage per request message,
\* {buffer} from the try block or {error} from the catch block.
WorkerResponse(r) ==
    IF reqs[r].scene.evalErr = "none"
    THEN [kind |-> "buffer", of |-> r, msg |-> ""]
    ELSE [kind |-> "error", of |-> r, msg |-> reqs[r].scene.evalErr]

WorkerOnMessage(w) ==
    /\ inbox[w] # <<>>
    /\ inbox' = [inbox EXCEPT ![w] = Tail(@)]
    /\ outbox' = [outbox EXCEPT ![w] = Append(@, WorkerResponse(Head(inbox[w])))]
    /\ UNCHANGED <<_worker, _exportQueue, nWorkers, reqs, settledOrder, crashed, nCrashes>>
    /\ UNCHANGED otherThanShim

\* An uncaught error in a constructed worker: an error event is queued for the
\* main thread.  The worker is never terminated, so it may go on answering.
WorkerRaiseError(w, msg) ==
    /\ w \in 1..nWorkers
    /\ nCrashes < MaxCrashes
    /\ nCrashes' = nCrashes + 1
    /\ outbox' = [outbox EXCEPT ![w] = Append(@, [kind |-> "crash", of |-> 0, msg |-> msg])]
    /\ UNCHANGED <<_worker, _exportQueue, nWorkers, inbox, reqs, settledOrder, crashed>>
    /\ UNCHANGED otherThanShim

\* w.onmessage in _getOrCreateWorker.
OnMessage(w) ==
    /\ outbox[w] # <<>>
    /\ Head(outbox[w]).kind \in {"buffer", "error"}
    /\ LET e == Head(outbox[w])
           rs == [reqs EXCEPT ![e.of].responded = TRUE]
       IN
       /\ outbox' = [outbox EXCEPT ![w] = Tail(@)]
       /\ IF _exportQueue = <<>>
          THEN \* orphaned message
               /\ reqs' = rs
               /\ UNCHANGED <<_exportQueue, settledOrder>>
          ELSE LET cb == QueueShift(_exportQueue).cb IN
               /\ _exportQueue' = QueueShift(_exportQueue).rest
               /\ settledOrder' = NoteSettled(settledOrder, rs, cb)
               /\ reqs' = [rs EXCEPT ![cb] =
                              IF e.kind = "error"
                              THEN Settle(@, cb, "rejected", Err("response", e.msg))
                              ELSE Settle(@, cb, "resolved", Bytes(e.of, "worker"))]
    /\ UNCHANGED <<_worker, nWorkers, inbox, crashed, nCrashes>>
    /\ UNCHANGED otherThanShim

\* Rejecting every entry of the queue, front first (the shift of the oldest
\* entry and the drain loop of w.onerror).
RECURSIVE RejectAll(_, _, _, _)
RejectAll(q, rs, first, msg) ==
    IF q = <<>> THEN rs
    ELSE LET cb == QueueShift(q).cb IN
         RejectAll(QueueShift(q).rest,
                   [rs EXCEPT ![cb] = Settle(@, cb, "rejected",
                        Err("crash", IF first THEN msg ELSE "Worker crashed"))],
                   FALSE, msg)

RECURSIVE NoteAll(_, _, _)
NoteAll(q, order, rs) ==
    IF q = <<>> THEN order
    ELSE NoteAll(QueueShift(q).rest, NoteSettled(order, rs, QueueShift(q).cb), rs)

\* w.onerror without `_worker = null`: the crashed worker stays the handle.
WorkerKeptAfterError(cur) == cur

\* What w.onerror leaves in _worker and _exportQueue.
WorkerAfterError(cur) == 0
QueueAfterError(q) == <<>>

\* w.onerror in _getOrCreateWorker.
OnError(w) ==
    /\ outbox[w] # <<>>
    /\ Head(outbox[w]).kind = "crash"
    /\ outbox' = [outbox EXCEPT ![w] = Tail(@)]
    /\ _worker' = WorkerAfterError(_worker)
    /\ reqs' = RejectAll(_exportQueue, reqs, TRUE, Head(outbox[w]).msg)
    /\ settledOrder' = NoteAll(_exportQueue, settledOrder, reqs)
    /\ _exportQueue' = QueueAfterError(_exportQueue)
    /\ crashed' = crashed \cup {w}
    /\ UNCHANGED <<nWorkers, inbox, nCrashes>>
    /\ UNCHANGED otherThanShim


\* ------------------------------------- geometryEngine.js: the Export cache

\* JavaScript values of the keycap params.  Numbers are in tenths of a mm.
Undefined == [t |-> "undefined", s |-> "", n |-> 0]
Null == [t |-> "null", s |-> "", n |-> 0]
Str(x) == [t |-> "string", s |-> x, n |-> 0]
Num(k) == [t |-> "number", s |-> "", n |-> k]
Bool(b) == [t |-> "boolean", s |-> "", n |-> IF b THEN 1 ELSE 0]

\* Number.prototype.toString of k tenths.
NumText(k) ==
    IF k % 10 = 0 THEN ToString(k \div 10)
    ELSE ToString(k \div 10) \o "." \o ToString(k % 10)

\* String(v), as a template literal converts v.
ToText(v) ==
    CASE v.t = "undefined" -> "undefined"
      [] v.t = "null" -> "null"
      [] v.t = "string" -> v.s
      [] v.t = "number" -> NumText(v.n)
      [] v.t = "boolean" -> IF v.n = 1 THEN "true" ELSE "false"

\* A destructuring default: it applies to undefined only.
OrDefault(v, dflt) == IF v.t = "undefined" THEN dflt ELSE v

\* createKeycapNode's default params (sceneDocument.js).
DefaultParams ==
    [profile |-> Str("Cherry"), size |-> Str("1u"), color |-> Str("#ffffff"),
     hasStem |-> Bool(TRUE), topRadius |-> Num(5), wallThickness |-> Num(15),
     height |-> Null, dishDepth |-> Null,
     embossEnabled |-> Undefined, embossText |-> Undefined]

\* The params of the KeycapTemplate nodes that are evaluated: the defaults and
\* the defaults with one param overridden.
ParamSet ==
    {DefaultParams,
     [DefaultParams EXCEPT !.profile = Str("SA")],
     [DefaultParams EXCEPT !.size = Str("2u")],
     [DefaultParams EXCEPT !.topRadius = Num(10)],
     [DefaultParams EXCEPT !.wallThickness = Num(20)],
     [DefaultParams EXCEPT !.dishDepth = Num(10)],
     [DefaultParams EXCEPT !.height = Num(90)],
     [DefaultParams EXCEPT !.hasStem = Bool(FALSE)],
     [DefaultParams EXCEPT !.color = Str("#ff0000")],
     [DefaultParams EXCEPT !.embossEnabled = Bool(TRUE), !.embossText = Str("A")]}

\* The nodes evaluated where callers mutate the returned meshes: two colours of
\* one shape, and another shape.
IsolationParams ==
    {DefaultParams,
     [DefaultParams EXCEPT !.color = Str("#ff0000")],
     [DefaultParams EXCEPT !.size = Str("2u")]}

\* The shape-affecting params of the data model: the cache's composite key
\* (profile, size, topRadius, wallThickness, dishDepth, height, hasStem).
ShapeParams(p) ==
    <<p.profile, p.size, p.topRadius, p.wallThickness, p.dishDepth, p.height, p.hasStem>>

\* _keycapCacheKey with `size` left out of the key.
KeyWithoutSize(p) ==
    ToText(OrDefault(p.profile, Str(""))) \o "|" \o ToText(p.topRadius) \o "|"
        \o ToText(p.wallThickness) \o "|" \o ToText(p.dishDepth) \o "|"
        \o ToText(p.height) \o "|" \o ToText(p.hasStem)

\* _keycapCacheKey.
_keycapCacheKey(p) ==
    ToText(OrDefault(p.profile, Str(""))) \o "|" \o ToText(OrDefault(p.size, Str("")))
        \o "|" \o ToText(p.topRadius) \o "|" \o ToText(p.wallThickness) \o "|"
        \o ToText(p.dishDepth) \o "|" \o ToText(p.height) \o "|" \o ToText(p.hasStem)

Clamp(lo, hi, x) == IF x < lo THEN lo ELSE IF x > hi THEN hi ELSE x

BaseHeight(profile) ==
    CASE profile = "SA" -> 145
      [] profile = "DSA" -> 74
      [] profile = "OEM" -> 119
      [] OTHER -> 115

\* OptimizedKeycapGenerator.generate: the geometry is a function of the params
\* it reads, after its defaults and clamps.
Generate(p) ==
    LET profile == IF p.profile.t = "string" /\ p.profile.s \in {"Cherry", "SA", "DSA", "OEM"}
                   THEN p.profile.s ELSE "Cherry"
        size == IF p.size.t = "string" /\ p.size.s \in {"1u", "2u"} THEN p.size.s ELSE "1u"
        embossed == p.embossEnabled = Bool(TRUE) /\ p.embossText.t = "string"
                        /\ p.embossText.s # ""
    IN
    [profile |-> profile,
     size |-> size,
     hasStem |-> IF p.hasStem.t = "undefined" THEN TRUE ELSE p.hasStem = Bool(TRUE),
     topRadius |-> Clamp(1, 30, IF p.topRadius.t = "number" THEN p.topRadius.n ELSE 5),
     wallThickness |-> Clamp(8, 35, IF p.wallThickness.t = "number"
                                     THEN p.wallThickness.n ELSE 15),
     dishDepth |-> IF p.dishDepth.t = "number" THEN Clamp(0, 30, p.dishDepth.n) ELSE 12,
     height |-> IF p.height.t = "number" /\ p.height.n # 0
                THEN p.height.n ELSE BaseHeight(profile),
     emboss |-> IF embossed THEN p.embossText.s ELSE "",
     mutated |-> FALSE]

\* BufferGeometry.clone(): a new object with the content of object o.
Clone(h, o) == Append(h, h[o])

\* `_keycapGeometryCache.set(key, generated.geometry)`: the cache keeps the
\* very object handed to the caller.
StoreSameObject(h, o) == h

\* `_keycapGeometryCache.set(key, generated.geometry.clone())`: the heap after
\* the miss branch stored generated geometry o; the stored object is the last.
StoreClone(h, o) == Clone(h, o)

Put(cache, key, o) ==
    [k \in DOMAIN cache \cup {key} |-> IF k = key THEN o ELSE cache[k]]

\* new THREE.Mesh(geometry, material) with the node's colour set; `returned` is
\* the geometry's content when the mesh is returned and `priorMutated` the
\* meshes returned earlier that their callers had mutated by then.
NewMesh(h, o, p, key) ==
    [geometry |-> o, color |-> IF p.color.t \in {"undefined", "null"}
                               THEN Str("#ffffff") ELSE p.color,
     params |-> p, key |-> key, returned |-> h[o],
     priorMutated |-> {i \in 1..Len(meshes) : heap[meshes[i].geometry].mutated}]

\* _evalKeycap(node, 'export') for a node with params p.
EvalKeycapExport(p) ==
    /\ Len(meshes) < MaxEvals
    /\ LET key == _keycapCacheKey(p) IN
       IF key \in DOMAIN _keycapGeometryCache
       THEN \* hit: a clone of the stored geometry
            /\ heap' = Clone(heap, _keycapGeometryCache[key])
            /\ meshes' = Append(meshes, NewMesh(heap', Len(heap) + 1, p, key))
            /\ UNCHANGED <<_keycapGeometryCache, generateSpy>>
       ELSE \* miss: generate, store a clone, hand out the generated geometry
            LET generated == Len(heap) + 1
                h1 == Append(heap, Generate(p))
                h2 == StoreClone(h1, generated)
            IN
            /\ heap' = h2
            /\ _keycapGeometryCache' = Put(_keycapGeometryCache, key, Len(h2))
            /\ generateSpy' = Append(generateSpy, p)
            /\ meshes' = Append(meshes, NewMesh(h2, generated, p, key))
    /\ evaluated' = Append(evaluated, p)
    /\ UNCHANGED otherThanExportCache

\* A caller mutates the geometry of a mesh evalNode returned to it.
MutateMesh(i) ==
    /\ i \in 1..Len(meshes)
    /\ ~heap[meshes[i].geometry].mutated
    /\ heap' = [heap EXCEPT ![meshes[i].geometry].mutated = TRUE]
    /\ UNCHANGED <<_keycapGeometryCache, generateSpy, evaluated, meshes>>
    /\ UNCHANGED otherThanExportCache

\* clearGeometryCache (the spy is cleared with it, as the tests' beforeEach does).
clearGeometryCache ==
    /\ _keycapGeometryCache' = <<>>
    /\ generateSpy' = <<>>
    /\ evaluated' = <<>>
    /\ UNCHANGED <<heap, meshes>>
    /\ UNCHANGED otherThanExportCache

InitExportCache ==
    /\ _keycapGeometryCache = <<>>
    /\ heap = <<>>
    /\ generateSpy = <<>>
    /\ evaluated = <<>>
    /\ meshes = <<>>

\* Evaluations over every param variant, and clearing.
NextExportKeys ==
    \/ \E p \in ParamSet : EvalKeycapExport(p)
    \/ clearGeometryCache

\* Evaluations, clearing, and callers that mutate what they were handed.
NextExportCache ==
    \/ \E p \in IsolationParams : EvalKeycapExport(p)
    \/ \E i \in 1..MaxEvals : MutateMesh(i)
    \/ clearGeometryCache


\* ------------------------------------------ Keycap.jsx: the Preview cache

_GEO_CACHE_MAX == 20

\* Number.prototype.toFixed(2) of k tenths.
ToFixed2(k) == ToString(k \div 10) \o "." \o ToString(k % 10) \o "0"

\* `typeof v === 'number' ? v.toFixed(2) : 'default'`.
FixedOrDefault(v) == IF v.t = "number" THEN ToFixed2(v.n) ELSE "default"

\* The key _getPreviewGeometry builds.
PreviewKey(p) ==
    ToText(p.profile) \o "|" \o ToText(p.size) \o "|" \o FixedOrDefault(p.topRadius)
        \o "|" \o FixedOrDefault(p.dishDepth) \o "|" \o FixedOrDefault(p.height)

\* OptimizedKeycapGenerator.generateInstantPreview: the shell only.
GenerateInstantPreview(p) ==
    LET profile == IF p.profile.t = "string" /\ p.profile.s \in {"Cherry", "SA", "DSA", "OEM"}
                   THEN p.profile.s ELSE "Cherry"
    IN
    [profile |-> profile,
     size |-> IF p.size.t = "string" /\ p.size.s \in {"1u", "2u"} THEN p.size.s ELSE "1u",
     topRadius |-> Clamp(1, 30, IF p.topRadius.t = "number" THEN p.topRadius.n ELSE 5),
     dishDepth |-> IF p.dishDepth.t = "number" THEN Clamp(0, 30, p.dishDepth.n) ELSE 12,
     height |-> IF p.height.t = "number" /\ p.height.n # 0
                THEN p.height.n ELSE BaseHeight(profile),
     mutated |-> FALSE]

\* The params KeycapTemplateNode passes to _getPreviewGeometry.
PreviewParams ==
    {[profile |-> Str("Cherry"), size |-> Str("1u"), topRadius |-> Num(5),
      dishDepth |-> Null, height |-> Null],
     [profile |-> Str("Cherry"), size |-> Str("2u"), topRadius |-> Num(5),
      dishDepth |-> Null, height |-> Null],
     [profile |-> Str("SA"), size |-> Str("1u"), topRadius |-> Num(10),
      dishDepth |-> Num(10), height |-> Num(90)]}

CachedAt(cache, key) == {i \in 1..Len(cache) : cache[i].key = key}

\* `return _geoCache.get(key)`: what a hit hands out, given the heap h and the
\* stored object o: the heap afterwards and the object returned, which is the
\* stored object itself.
HitReturn(h, o) == [heap |-> h, obj |-> o]

\* Deleting the last key of the Map in place of the first.
EvictNewest(cache) == SubSeq(cache, 1, Len(cache) - 1)

\* `_geoCache.delete(_geoCache.keys().next().value)`.
EvictOldest(cache) == Tail(cache)

\* _getPreviewGeometry(profile, size, topRadius, dishDepth, height).
getPreviewGeometryCall(p) ==
    /\ LET key == PreviewKey(p)
           at == CachedAt(_geoCache, key)
           note(h, o) == Append(lookups, [key |-> key, obj |-> o, returned |-> h[o],
                                          hit |-> at # {}])
       IN
       IF at # {}
       THEN LET got == HitReturn(pvHeap, _geoCache[CHOOSE i \in at : TRUE].obj) IN
            /\ pvHeap' = got.heap
            /\ lookups' = note(got.heap, got.obj)
            /\ UNCHANGED _geoCache
       ELSE LET h == Append(pvHeap, GenerateInstantPreview(p))
                geo == Len(h)
                kept == IF Len(_geoCache) >= _GEO_CACHE_MAX THEN EvictOldest(_geoCache)
                        ELSE _geoCache
            IN
            /\ pvHeap' = h
            /\ _geoCache' = Append(kept, [key |-> key, obj |-> geo])
            /\ lookups' = note(h, geo)

\* One _getPreviewGeometry call of a KeycapTemplateNode render.
_getPreviewGeometry(p) ==
    /\ Len(lookups) < MaxLookups
    /\ getPreviewGeometryCall(p)
    /\ UNCHANGED otherThanPreview

\* A caller mutates or disposes the geometry a lookup handed to it.
MutatePreview(i) ==
    /\ i \in 1..Len(lookups)
    /\ ~pvHeap[lookups[i].obj].mutated
    /\ pvHeap' = [pvHeap EXCEPT ![lookups[i].obj].mutated = TRUE]
    /\ UNCHANGED <<_geoCache, lookups>>
    /\ UNCHANGED otherThanPreview

InitPreview ==
    /\ _geoCache = <<>>
    /\ pvHeap = <<>>
    /\ lookups = <<>>

NextPreview ==
    \/ \E p \in PreviewParams : _getPreviewGeometry(p)
    \/ \E i \in 1..MaxLookups : MutatePreview(i)

\* ------------------------------------------------ AsyncKeycapGenerator

maxCacheSize == 15

Modes == {"fast", "balanced", "quality"}

\* The params Keycap / PropertyPanel pass to the async generator.
AsyncParams ==
    {[profile |-> Str("Cherry"), size |-> Str("1u"), hasStem |-> Bool(TRUE),
      topRadius |-> Num(5), wallThickness |-> Num(15)],
     [profile |-> Str("Cherry"), size |-> Str("2u"), hasStem |-> Bool(TRUE),
      topRadius |-> Num(5), wallThickness |-> Num(15)]}

\* `typeof v === 'number' ? v.toFixed(2) : v`.
FixedOrSelf(v) == IF v.t = "number" THEN ToFixed2(v.n) ELSE ToText(v)

\* AsyncKeycapGenerator._getCacheKey.
_getCacheKey(p) ==
    ToText(p.profile) \o "-" \o ToText(p.size) \o "-" \o ToText(p.hasStem) \o "-"
        \o FixedOrSelf(p.topRadius) \o "-" \o FixedOrSelf(p.wallThickness)

\* The key of a call: generatePreviewAsync prefixes it.
AsyncKey(kind, p) == IF kind = "preview" THEN "preview-" \o _getCacheKey(p) ELSE _getCacheKey(p)

\* generator.generate / generatePreview under performance mode `mode`: the
\* tessellation (_calculateOptimalSegments, _getExtrudeSteps) follows the mode.
AsyncResult(kind, p, mode, requestedUnder) ==
    [kind |-> kind, params |-> p, mode |-> mode, requestedUnder |-> requestedUnder]

\* _addToCache(key, value).
_addToCache(cache, key, value) ==
    LET without == SelectSeq(cache, LAMBDA e : e.key # key)
        added == Append(without, [key |-> key, value |-> value])
    IN IF Len(added) > maxCacheSize THEN Tail(added) ELSE added

\* generateAsync(params) (kind "full") and generatePreviewAsync(params) (kind
\* "preview") up to the return: a hit returns the cached result, a miss
\* schedules the generation with setTimeout(..., 10).
generateAsyncCall(kind, p) ==
    /\ agCalls' = agCalls + 1
    /\ LET key == AsyncKey(kind, p)
           at == CachedAt(agCache, key)
       IN
       IF at # {}
       THEN /\ agHits' = Append(agHits, [key |-> key,
                                         value |-> agCache[CHOOSE i \in at : TRUE].value,
                                         modeAtHit |-> agMode])
            /\ UNCHANGED agTimers
       ELSE /\ agTimers' = Append(agTimers, [key |-> key, kind |-> kind, params |-> p,
                                             requestedUnder |-> agMode])
            /\ UNCHANGED agHits
    /\ UNCHANGED <<agCache, agMode, agModeChanges>>

\* One generateAsync / generatePreviewAsync call of the component.
generateAsync(kind, p) ==
    /\ agCalls < MaxAsyncCalls
    /\ generateAsyncCall(kind, p)
    /\ UNCHANGED otherThanAsync

\* The setTimeout callback of generateAsync / generatePreviewAsync: generate
\* with the generator as it is now, cache the result, resolve.  Timers of the
\* same delay fire in the order they were set.
TimerCallback ==
    /\ agTimers # <<>>
    /\ LET t == Head(agTimers) IN
       agCache' = _addToCache(agCache, t.key,
                              AsyncResult(t.kind, t.params, agMode, t.requestedUnder))
    /\ agTimers' = Tail(agTimers)
    /\ UNCHANGED <<agMode, agHits, agCalls, agModeChanges>>

\* The oldest pending setTimeout callback runs.
TimerFires == TimerCallback /\ UNCHANGED otherThanAsync

\* handleModeChange that leaves the cache as it is.
CacheKeptOnModeChange(cache) == cache

\* clearCache().
clearCache(cache) == <<>>

\* OptimizedKeycapGenerator.setPerformanceMode.
setPerformanceMode(cur, mode) == IF mode \in Modes THEN mode ELSE cur

\* PerformanceSettings.handleModeChange(newMode).
handleModeChange(newMode) ==
    /\ agModeChanges < MaxModeChanges
    /\ agModeChanges' = agModeChanges + 1
    /\ agMode' = setPerformanceMode(agMode, newMode)
    /\ agCache' = clearCache(agCache)
    /\ UNCHANGED <<agTimers, agHits, agCalls>>
    /\ UNCHANGED otherThanAsync

InitAsync ==
    /\ agCache = <<>>
    /\ agMode = "balanced"
    /\ agTimers = <<>>
    /\ agHits = <<>>
    /\ agCalls = 0
    /\ agModeChanges = 0

NextAsync ==
    \/ \E kind \in {"full", "preview"}, p \in AsyncParams : generateAsync(kind, p)
    \/ TimerFires
    \/ \E m \in Modes : handleModeChange(m)

\* ------------------------------ geometryEngine.js: the scene tree evaluator
\* Positions and rotations are the text of the node's array; "" is an absent
\* field.
Origin == "0,0,0"
Vectors == {Origin, "5,0,0"}

\* sceneDocument.js node factories (ids are given, `overrides` sets position
\* and rotation).
createPrimitive(id, primitive, position, rotation) ==
    [id |-> id, type |-> "Primitive", primitive |-> primitive, operation |-> "",
     params |-> DefaultParams, position |-> position, rotation |-> rotation,
     hasChildren |-> FALSE, children |-> <<>>]

createKeycapNode(id, p, position, rotation) ==
    [id |-> id, type |-> "KeycapTemplate", primitive |-> "", operation |-> "",
     params |-> p, position |-> position, rotation |-> rotation,
     hasChildren |-> FALSE, children |-> <<>>]

createBooleanNode(id, operation, children, position, rotation) ==
    [id |-> id, type |-> "Boolean", primitive |-> "", operation |-> operation,
     params |-> DefaultParams, position |-> position, rotation |-> rotation,
     hasChildren |-> TRUE, children |-> children]

createGroupNode(id, children, position, rotation) ==
    [id |-> id, type |-> "Group", primitive |-> "", operation |-> "",
     params |-> DefaultParams, position |-> position, rotation |-> rotation,
     hasChildren |-> TRUE, children |-> children]

\* A node whose type is none of NODE_TYPES.
UnknownNode(id) ==
    [id |-> id, type |-> "__unknown__", primitive |-> "", operation |-> "",
     params |-> DefaultParams, position |-> "", rotation |-> "",
     hasChildren |-> FALSE, children |-> <<>>]

EmbossParams == [DefaultParams EXCEPT !.embossEnabled = Bool(TRUE), !.embossText = Str("A")]
NoStemParams == [DefaultParams EXCEPT !.hasStem = Bool(FALSE)]

Box == createPrimitive("box1", "box", Origin, Origin)
Sphere == createPrimitive("sph1", "sphere", "5,0,0", Origin)
Cylinder == createPrimitive("cyl1", "cylinder", Origin, "5,0,0")
Keycap == createKeycapNode("key1", DefaultParams, Origin, Origin)

\* The node trees that are evaluated.
EvalTrees ==
    {Box,
     createPrimitive("p", "box", "", ""),
     createKeycapNode("k", EmbossParams, "5,0,0", Origin),
     createKeycapNode("k", NoStemParams, Origin, "5,0,0"),
     UnknownNode("u"),
     createBooleanNode("b", "union", <<Box, Sphere>>, Origin, Origin),
     createBooleanNode("b", "intersect", <<Box, Sphere>>, "5,0,0", Origin),
     createBooleanNode("b", "subtract", <<Box, Sphere, Cylinder>>, Origin, "5,0,0"),
     createBooleanNode("b", "", <<Sphere, Box, Cylinder>>, Origin, Origin),
     createBooleanNode("b", "xor", <<Box, Sphere>>, Origin, Origin),
     createBooleanNode("b", "union", <<Keycap, Cylinder>>, Origin, Origin),
     createBooleanNode("b", "union",
         <<createBooleanNode("c", "intersect", <<Box, Sphere>>, "5,0,0", Origin), Cylinder>>,
         Origin, Origin),
     createBooleanNode("b", "subtract", <<>>, "5,0,0", Origin),
     createBooleanNode("b", "subtract", <<Box>>, "5,0,0", Origin),
     createBooleanNode("b", "subtract", <<Box>>, Origin, "5,0,0"),
     createBooleanNode("b", "union", <<Box, UnknownNode("u"), Sphere>>, Origin, Origin),
     createBooleanNode("b", "union", <<createGroupNode("g", <<Box>>, Origin, Origin), Sphere>>,
         Origin, Origin),
     createGroupNode("root", <<Keycap>>, Origin, Origin),
     createGroupNode("root",
         <<createKeycapNode("k", EmbossParams, Origin, Origin),
           createBooleanNode("b", "subtract", <<Box, Sphere>>, "5,0,0", Origin)>>,
         "5,0,0", "5,0,0")}

\* A THREE.Object3D as evalNode returns it: its class, the description of its
\* geometry and of its children, its own position and rotation and its
\* material's opacity.  kind "null" is null; kind "throw" is an exception
\* leaving the call.
Object3D(kind, geom, children) ==
    [kind |-> kind, geom |-> geom, children |-> children,
     position |-> Origin, rotation |-> Origin, opacity |-> "1"]

NullObject == Object3D("null", "", "")
Thrown == Object3D("throw", "", "")

\* _applyTransform(obj, node).
_applyTransform(obj, node) ==
    [obj EXCEPT !.position = IF node.position # "" THEN node.position ELSE @,
                !.rotation = IF node.rotation # "" THEN node.rotation ELSE @]

\* The text that identifies an object: what a caller can observe of it.
Describe(o) ==
    o.kind \o "<" \o o.geom \o o.children \o ">@" \o o.position \o "/" \o o.rotation
        \o "*" \o o.opacity

\* CSG.fromMesh(mesh): the mesh's geometry with the mesh's matrix applied.
FromMesh(o) == o.geom \o "@" \o o.position \o "/" \o o.rotation

\* _evalPrimitive(node): `box` is the default shape.
_evalPrimitive(node) ==
    LET shape == IF node.primitive \in {"cylinder", "sphere"} THEN node.primitive ELSE "box" IN
    _applyTransform(Object3D("Mesh", shape, ""), node)

\* The state an evaluation threads through its calls: the Export cache and the
\* objects behind it, the Boolean Mesh Operator calls made so far (`fail` is
\* the number of the call the operator fails on, 0 for none), the runs of the
\* keycap generator and the evalNode calls that have returned or thrown.
EvalState(failAt) ==
    [cache |-> _keycapGeometryCache, heap |-> heap, spy |-> generateSpy,
     evald |-> evaluated, calls |-> <<>>, gens |-> <<>>, trace |-> <<>>, fail |-> failAt]

\* One call of a Boolean Mesh Operator method (CSG union / subtract /
\* intersect) on behalf of `by`; it throws when the operator fails.
BooleanMeshOperator(st, by, method, left, right) ==
    LET ok == Len(st.calls) + 1 # st.fail IN
    [st |-> [st EXCEPT !.calls = Append(@, [by |-> by, method |-> method, left |-> left,
                                             right |-> right, ok |-> ok])],
     ok |-> ok,
     geom |-> method \o "(" \o left \o "," \o right \o ")"]

\* The outer shell _createHighQualityMesh builds from the params generate and
\* generatePreview read.
Shell(p) ==
    LET g == Generate(p) IN
    "shell(" \o g.profile \o "," \o g.size \o "," \o ToString(g.topRadius) \o ","
        \o ToString(g.dishDepth) \o "," \o ToString(g.height) \o ")"

\* _performCombinedCSG's subtraction list: the inner void (the clamped wall
\* thickness is always within 0.1 .. width / 2) and the two bars of the stem
\* cross.
SubtractMeshes(p) ==
    <<"void" \o ToString(Generate(p).wallThickness)>>
        \o (IF Generate(p).hasStem THEN <<"hBar", "vBar">> ELSE <<>>)

RECURSIVE SubtractEach(_, _, _, _)
RECURSIVE Subtracted(_, _, _, _)

\* The end of one turn of the loop below: the subtraction `r` went through or
\* threw.
Subtracted(acc, list, i, r) ==
    IF r.ok THEN SubtractEach(r.st, r.geom, list, i + 1)
    ELSE [st |-> r.st, ok |-> FALSE, geom |-> acc]

\* The loop of _performCombinedCSG: `resultCSG = resultCSG.subtract(...)` for
\* each mesh of the list, from mesh i on.
SubtractEach(st, acc, list, i) ==
    IF i > Len(list) THEN [st |-> st, ok |-> TRUE, geom |-> acc]
    ELSE Subtracted(acc, list, i, BooleanMeshOperator(st, "generate", "subtract", acc, list[i]))

\* _performCombinedCSG(outerMesh, ...): no try/catch, a failed subtraction
\* leaves the function as an exception.
_performCombinedCSG(st, p) == SubtractEach(st, Shell(p), SubtractMeshes(p), 1)

\* The end of _applyTextEmboss's try block, or its catch: the embossed mesh
\* when the union `r` went through, else the mesh it was given.
EmbossOutcome(mesh, r) ==
    [st |-> r.st, ok |-> TRUE, geom |-> IF r.ok THEN r.geom ELSE mesh, embossed |-> r.ok,
     csgOk |-> TRUE]

\* _applyTextEmboss(mesh, params, height): the union is inside a try, a
\* failure returns the mesh it was given.
_applyTextEmboss(st, p, mesh) ==
    EmbossOutcome(mesh, BooleanMeshOperator(st, "generate", "union", mesh,
                                            "text" \o Generate(p).emboss))

\* generate after _performCombinedCSG returned or threw (`csg`): the emboss
\* step when enabled with a non-empty text.
EmbossStep(p, csg) ==
    IF csg.ok /\ Generate(p).emboss # "" THEN _applyTextEmboss(csg.st, p, csg.geom)
    ELSE [st |-> csg.st, ok |-> csg.ok, geom |-> csg.geom, embossed |-> FALSE,
          csgOk |-> csg.ok]

\* What generate hands back after its last step `emb`: the mesh (`content` is
\* what its geometry holds) or the exception, with the run noted in `gens`.
GenerateOutcome(p, emb) ==
    [st |-> [emb.st EXCEPT
                !.gens = Append(@, [params |-> p, shell |-> Shell(p),
                                    failed |-> IF ~emb.csgOk THEN "subtract"
                                               ELSE IF Generate(p).emboss # "" /\ ~emb.embossed
                                               THEN "emboss" ELSE "",
                                    threw |-> ~emb.ok, returned |-> emb.geom]),
                !.spy = Append(@, p)],
     ok |-> emb.ok,
     geom |-> emb.geom,
     content |-> IF emb.embossed THEN Generate(p) ELSE [Generate(p) EXCEPT !.emboss = ""]]

\* OptimizedKeycapGenerator.generate(params) inside an evaluation.
GenerateRun(st, p) == GenerateOutcome(p, EmbossStep(p, _performCombinedCSG(st, p)))

\* generatePreview running the combined subtraction pass, as generate does.
GeneratePreviewWithCSG(st, p) == _performCombinedCSG(st, p)

\* generatePreview(params): the shell only, no Boolean Mesh Operator call.
generatePreview(st, p) == [st |-> st, ok |-> TRUE, geom |-> Shell(p)]

\* The description of a keycap geometry object of the Export path.
KeycapGeom(key, content) ==
    "keycap(" \o key \o ")" \o (IF content.emboss # "" THEN "+" \o content.emboss ELSE "")

\* The mesh _evalKeycap builds around a geometry.
KeycapMesh(geom, node) == _applyTransform(Object3D("Mesh", geom, ""), node)

\* The hit branch of _evalKeycap: a clone of the stored geometry, `h` being
\* the heap with the clone as its last object.
KeycapHit(node, key, st, h) ==
    [obj |-> KeycapMesh(KeycapGeom(key, h[Len(h)]), node), st |-> [st EXCEPT !.heap = h]]

\* The miss branch of _evalKeycap after generate returned or threw (`g`): a
\* clone is stored and the generated geometry handed out.
KeycapMiss(node, key, g) ==
    IF ~g.ok THEN [obj |-> Thrown, st |-> g.st]
    ELSE [obj |-> KeycapMesh(KeycapGeom(key, g.content), node),
          st |-> [g.st EXCEPT
                     !.heap = StoreClone(Append(@, g.content), Len(@) + 1),
                     !.cache = Put(@, key, Len(g.st.heap) + 2)]]

\* The Preview branch of _evalKeycap after generatePreview (`g`).
KeycapPreview(node, g) ==
    IF ~g.ok THEN [obj |-> Thrown, st |-> g.st]
    ELSE [obj |-> KeycapMesh(g.geom, node), st |-> g.st]

\* The Export branch of _evalKeycap.
KeycapExport(node, key, st) ==
    IF key \in DOMAIN st.cache THEN KeycapHit(node, key, st, Clone(st.heap, st.cache[key]))
    ELSE KeycapMiss(node, key, GenerateRun(st, node.params))

\* _evalKeycap(node, mode).
_evalKeycap(node, mode, st) ==
    IF mode = "export"
    THEN KeycapExport(node, _keycapCacheKey(node.params),
                      [st EXCEPT !.evald = Append(@, node.params)])
    ELSE KeycapPreview(node, generatePreview(st, node.params))

\* The switch of _evalBoolean: union and intersect by name, subtract for
\* 'subtract' and for anything else; this one falls back to union.
MethodDefaultUnion(operation) ==
    IF operation \in {"subtract", "intersect"} THEN operation ELSE "union"

\* The switch of _evalBoolean on node.operation.
BooleanMethod(operation) ==
    IF operation \in {"union", "intersect"} THEN operation ELSE "subtract"

\* The ghost material of the Preview overlay: children after the first that
\* have a material get a transparent clone of it.
Ghost(obj, i) == IF i > 1 /\ obj.kind = "Mesh" THEN [obj EXCEPT !.opacity = "0.25"] ELSE obj

\* The record of one evalNode call: the node, what its children evaluated to
\* (as evalNode returned them, in order), what it returned, and the range of
\* Boolean Mesh Operator calls made during it.
NodeRun(node, mode, kids, result, callsFrom, callsTo) ==
    [id |-> node.id, type |-> node.type, mode |-> mode, operation |-> node.operation,
     position |-> node.position, rotation |-> node.rotation,
     nChildren |-> Len(node.children), kids |-> kids, result |-> result,
     callsFrom |-> callsFrom, callsTo |-> callsTo]

RECURSIVE evalNode(_, _, _)
RECURSIVE AddChildren(_, _, _, _, _, _, _)
RECURSIVE AddChild(_, _, _, _, _, _, _)
RECURSIVE CombineChildren(_, _, _, _, _, _)
RECURSIVE CombineChild(_, _, _, _, _, _)
RECURSIVE Combined(_, _, _, _, _, _)

\* One turn of the child loops below, child i having evaluated to r.obj: an
\* exception ends the loop, null is skipped, any other object is added to the
\* group (ghosted when `ghosts`).
AddChild(children, mode, i, kids, desc, ghosts, r) ==
    IF r.obj.kind = "throw"
    THEN [st |-> r.st, ok |-> FALSE, kids |-> Append(kids, r.obj), desc |-> desc]
    ELSE IF r.obj.kind = "null"
    THEN AddChildren(children, mode, r.st, i + 1, Append(kids, r.obj), desc, ghosts)
    ELSE AddChildren(children, mode, r.st, i + 1, Append(kids, r.obj),
                     desc \o "[" \o Describe(IF ghosts THEN Ghost(r.obj, i) ELSE r.obj) \o "]",
                     ghosts)

\* The child loops of _evalGroup and of _evalBoolean's Preview branch, from
\* child i on.
AddChildren(children, mode, st, i, kids, desc, ghosts) ==
    IF i > Len(children) THEN [st |-> st, ok |-> TRUE, kids |-> kids, desc |-> desc]
    ELSE AddChild(children, mode, i, kids, desc, ghosts, evalNode(children[i], mode, st))

\* The group the child loop `r` filled, with the node's transform.
GroupOf(node, r) ==
    [obj |-> IF r.ok THEN _applyTransform(Object3D("Group", "", r.desc), node) ELSE Thrown,
     st |-> r.st, kids |-> r.kids]

\* _evalGroup(node, mode).
_evalGroup(node, mode, st) ==
    GroupOf(node, AddChildren(node.children, mode, st, 1, <<>>, "", FALSE))

\* The end of one turn of the Export loop: the operator call `c` went through
\* or threw.
Combined(node, mode, i, kids, acc, c) ==
    IF c.ok THEN CombineChildren(node, mode, c.st, i + 1, kids, c.geom)
    ELSE [st |-> c.st, ok |-> FALSE, kids |-> kids, geom |-> acc]

\* One turn of the Export loop, child i having evaluated to r.obj: null is
\* skipped, else the child is combined into the accumulator by the node's
\* method.  CSG.fromMesh throws on an object that has no geometry.
CombineChild(node, mode, i, kids, acc, r) ==
    IF r.obj.kind = "throw" \/ r.obj.kind = "Group"
    THEN [st |-> r.st, ok |-> FALSE, kids |-> Append(kids, r.obj), geom |-> acc]
    ELSE IF r.obj.kind = "null"
    THEN CombineChildren(node, mode, r.st, i + 1, Append(kids, r.obj), acc)
    ELSE Combined(node, mode, i, Append(kids, r.obj), acc,
                  BooleanMeshOperator(r.st, node.id, BooleanMethod(node.operation), acc,
                                      FromMesh(r.obj)))

\* The Export loop of _evalBoolean from child i on.
CombineChildren(node, mode, st, i, kids, acc) ==
    IF i > Len(node.children) THEN [st |-> st, ok |-> TRUE, kids |-> kids, geom |-> acc]
    ELSE CombineChild(node, mode, i, kids, acc, evalNode(node.children[i], mode, st))

\* CSG.toMesh of the accumulator the Export loop `r` ended with, with the
\* node's transform.
MeshOf(node, r) ==
    [obj |-> IF r.ok THEN _applyTransform(Object3D("Mesh", r.geom, ""), node) ELSE Thrown,
     st |-> r.st, kids |-> r.kids]

\* The Export branch of _evalBoolean for a node with children, the first
\* having evaluated to b.obj: with one child that is the result; a null base
\* gives null; else the other children are combined into it.
ExportFrom(node, mode, b) ==
    IF Len(node.children) = 1 \/ b.obj.kind \in {"null", "throw"}
    THEN [obj |-> b.obj, st |-> b.st, kids |-> <<b.obj>>]
    ELSE IF b.obj.kind # "Mesh" THEN [obj |-> Thrown, st |-> b.st, kids |-> <<b.obj>>]
    ELSE MeshOf(node, CombineChildren(node, mode, b.st, 2, <<b.obj>>, FromMesh(b.obj)))

\* _evalBoolean(node, mode).
_evalBoolean(node, mode, st) ==
    IF mode = "preview"
    THEN GroupOf(node, AddChildren(node.children, mode, st, 1, <<>>, "", TRUE))
    ELSE IF Len(node.children) = 0 THEN [obj |-> NullObject, st |-> st, kids |-> <<>>]
    ELSE ExportFrom(node, mode, evalNode(node.children[1], mode, st))

\* A leaf's result in the form of the others.
Leaf(k) == [obj |-> k.obj, st |-> k.st, kids |-> <<>>]

\* The switch of evalNode on node.type.
Dispatch(node, mode, st) ==
    CASE node.type = "Primitive" -> Leaf([obj |-> _evalPrimitive(node), st |-> st])
      [] node.type = "KeycapTemplate" -> Leaf(_evalKeycap(node, mode, st))
      [] node.type = "Boolean" -> _evalBoolean(node, mode, st)
      [] node.type = "Group" -> _evalGroup(node, mode, st)
      [] OTHER -> Leaf([obj |-> NullObject, st |-> st])

\* The return of evalNode, noted in the trace.
Returned(node, mode, callsFrom, r) ==
    [obj |-> r.obj,
     st |-> [r.st EXCEPT !.trace = Append(@, NodeRun(node, mode, r.kids, r.obj, callsFrom,
                                                     Len(r.st.calls)))]]

\* evalNode(node, mode).
evalNode(node, mode, st) == Returned(node, mode, Len(st.calls), Dispatch(node, mode, st))

\* What an evaluation leaves behind: the result with its calls and trace, and
\* the Export cache as the evaluation left it.
Evaluated(tree, mode, r) ==
    /\ evalRun' = [root |-> tree.id, mode |-> mode, result |-> r.obj,
                   calls |-> r.st.calls, gens |-> r.st.gens, trace |-> r.st.trace]
    /\ _keycapGeometryCache' = r.st.cache
    /\ heap' = r.st.heap
    /\ generateSpy' = r.st.spy
    /\ evaluated' = r.st.evald

\* A caller evaluates one node tree (evalNode(root, mode)); the Boolean Mesh
\* Operator fails on its call number failAt, if it is called that often.
EvalTree(tree, mode, failAt) ==
    /\ nEvalRuns < MaxTreeEvals
    /\ Evaluated(tree, mode, evalNode(tree, mode, EvalState(failAt)))
    /\ nEvalRuns' = nEvalRuns + 1
    /\ UNCHANGED meshes
    /\ UNCHANGED otherThanEval

\* Before any evaluation.
NoRun ==
    [root |-> "", mode |-> "", result |-> NullObject, calls |-> <<>>, gens |-> <<>>,
     trace |-> <<>>]

InitEval ==
    /\ evalRun = NoRun
    /\ nEvalRuns = 0

NextEval ==
    \/ \E tree \in EvalTrees, mode \in {"preview", "export"}, failAt \in 0..MaxFailAt :
          EvalTree(tree, mode, failAt)
    \/ clearGeometryCache

\* ------------------------------------------ projectStore.js: undo and redo
MAX_HISTORY == 100

\* The number NaN.
NaN == [t |-> "number", s |-> "NaN", n |-> 0]

\* { ...obj, ...partial }.
Spread(obj, partial) ==
    [k \in DOMAIN obj \cup DOMAIN partial |-> IF k \in DOMAIN partial THEN partial[k] ELSE obj[k]]

\* obj[k], undefined for a property obj does not have.
Prop(obj, k) == IF k \in DOMAIN obj THEN obj[k] ELSE Undefined

\* JSON.stringify then JSON.parse of a value: NaN becomes null.
JsonValue(v) == IF v = NaN THEN Null ELSE v

\* JSON.stringify then JSON.parse of an object of values: properties whose
\* value is undefined are left out.
JsonObject(o) == [k \in {j \in DOMAIN o : o[j] # Undefined} |-> JsonValue(o[k])]

\* serialiseProject(project): the JSON document, as JSON.parse reads it back.
serialiseProject(p) ==
    [version |-> JsonValue(p.version), keycap |-> JsonObject(p.keycap),
     legends |-> [k \in DOMAIN p.legends |-> JsonObject(p.legends[k])]]

\* clone(obj): JSON.parse(JSON.stringify(obj)).
clone(p) == serialiseProject(p)

\* validateProject(raw): throws on another version, else migrates the legacy
\* preset aliases.
validateProject(raw) ==
    IF raw.version # Num(10) THEN [ok |-> FALSE, project |-> raw]
    ELSE IF Prop(raw.keycap, "preset") \in {Str("Shift"), Str("Enter")}
    THEN [ok |-> TRUE, project |-> [raw EXCEPT !.keycap = Spread(@, [preset |-> Str("2.25u")])]]
    ELSE [ok |-> TRUE, project |-> raw]

\* deserialiseProject(text).
deserialiseProject(text) == validateProject(text)

\* createDefaultProject() (the legends' layout fields are left out).
createDefaultProject ==
    [version |-> Num(10),
     keycap |-> [preset |-> Str("1u"), bgColor |-> Str("#e0e0e0"), outlineThickness |-> Num(20)],
     legends |-> [main |-> [enabled |-> Bool(TRUE), text |-> Str("A")],
                  topLeft |-> [enabled |-> Bool(FALSE), text |-> Str("")]]]

\* The arguments of the mutations.
KeycapPartials ==
    {[bgColor |-> Str("#ff0000")], [preset |-> Str("Shift")], [outlineThickness |-> NaN],
     [bgColor |-> Undefined]}

LegendPartials == {[text |-> Str("Ctrl")], [enabled |-> Bool(TRUE), text |-> Str("F1")]}

NewProjects ==
    {[createDefaultProject EXCEPT !.keycap.bgColor = Str("#123456")],
     [createDefaultProject EXCEPT !.keycap.preset = Str("Enter")],
     [createDefaultProject EXCEPT !.version = Num(20)]}

\* What the store did last: the operation, the project before it, the project
\* an undo or redo was to bring back (as it was, not as serialised) and
\* whether the operation threw.
ProjectOp(op, before, expected, threw) ==
    [op |-> op, before |-> before, expected |-> expected, threw |-> threw]

\* A stack that drops its newest snapshot when it has grown beyond MAX_HISTORY.
CappedAtNewest(newPast) ==
    IF Len(newPast) > MAX_HISTORY THEN SubSeq(newPast, 1, Len(newPast) - 1) ELSE newPast

\* `newPast.shift()` when the stack has grown beyond MAX_HISTORY.
Capped(newPast) == IF Len(newPast) > MAX_HISTORY THEN Tail(newPast) ELSE newPast

\* _snapshot()'s new undo stack; `exact` keeps the projects themselves next to
\* their snapshots.
_snapshot(stack, entry) == Capped(Append(stack, entry))

\* What setProject(newProject, { resetHistory }) sets in the project store.
setProjectCall(newProject, resetHistory) ==
    /\ project' = clone(newProject)
    /\ isDirty' = ~resetHistory
    /\ past' = IF resetHistory THEN <<>> ELSE _snapshot(past, serialiseProject(project))
    /\ exactPast' = IF resetHistory THEN <<>> ELSE _snapshot(exactPast, project)
    /\ future' = <<>>
    /\ exactFuture' = <<>>
    /\ lastProjectOp' = ProjectOp("setProject", project, project, FALSE)
    /\ nProjectOps' = nProjectOps + 1

\* setProject(newProject, { resetHistory }).
setProject(newProject, resetHistory) ==
    /\ nProjectOps < MaxProjectOps
    /\ setProjectCall(newProject, resetHistory)
    /\ UNCHANGED otherThanProject

\* What updateKeycap and updateLegend set in the project store: _snapshot(),
\* then set({ project: updated, isDirty: true }).
Mutation(op, updated) ==
    /\ project' = updated
    /\ isDirty' = TRUE
    /\ past' = _snapshot(past, serialiseProject(project))
    /\ exactPast' = _snapshot(exactPast, project)
    /\ future' = <<>>
    /\ exactFuture' = <<>>
    /\ lastProjectOp' = ProjectOp(op, project, project, FALSE)
    /\ nProjectOps' = nProjectOps + 1

\* A mutation called on the project store alone.
Mutated(op, updated) ==
    /\ nProjectOps < MaxProjectOps
    /\ Mutation(op, updated)
    /\ UNCHANGED otherThanProject

\* What updateKeycap(partial) sets in the project store.
updateKeycapCall(partial) ==
    Mutation("updateKeycap", [project EXCEPT !.keycap = Spread(@, partial)])

\* updateKeycap(partial).
updateKeycap(partial) ==
    /\ nProjectOps < MaxProjectOps
    /\ updateKeycapCall(partial)
    /\ UNCHANGED otherThanProject

\* updateLegend(key, partial).
updateLegend(key, partial) ==
    Mutated("updateLegend",
            [project EXCEPT !.legends =
                Spread(@, [k \in {key} |-> Spread(project.legends[key], partial)])])

\* The snapshot undo takes: the oldest one of the stack.
OldestSnapshot(stack) == Head(stack)

\* `past[past.length - 1]`: the snapshot undo takes.
LastSnapshot(stack) == stack[Len(stack)]

\* What undo and redo leave when deserialiseProject throws: nothing is set.
Threw(op, expected) ==
    /\ lastProjectOp' = ProjectOp(op, project, expected, TRUE)
    /\ UNCHANGED <<project, past, future, isDirty, exactPast, exactFuture>>

\* What undo() sets in the project store.
undoCall ==
    /\ nProjectOps' = nProjectOps + 1
    /\ IF Len(past) = 0
       THEN /\ lastProjectOp' = ProjectOp("none", project, project, FALSE)
            /\ UNCHANGED <<project, past, future, isDirty, exactPast, exactFuture>>
       ELSE LET prev == deserialiseProject(LastSnapshot(past)) IN
            IF ~prev.ok THEN Threw("undo", exactPast[Len(exactPast)])
            ELSE /\ project' = prev.project
                 /\ past' = SubSeq(past, 1, Len(past) - 1)
                 /\ future' = <<serialiseProject(project)>> \o future
                 /\ isDirty' = TRUE
                 /\ exactPast' = SubSeq(exactPast, 1, Len(exactPast) - 1)
                 /\ exactFuture' = <<project>> \o exactFuture
                 /\ lastProjectOp' = ProjectOp("undo", project, exactPast[Len(exactPast)], FALSE)

\* undo().
undo ==
    /\ nProjectOps < MaxProjectOps
    /\ undoCall
    /\ UNCHANGED otherThanProject

\* What redo() sets in the project store.
redoCall ==
    /\ nProjectOps' = nProjectOps + 1
    /\ IF Len(future) = 0
       THEN /\ lastProjectOp' = ProjectOp("none", project, project, FALSE)
            /\ UNCHANGED <<project, past, future, isDirty, exactPast, exactFuture>>
       ELSE LET next == deserialiseProject(Head(future)) IN
            IF ~next.ok THEN Threw("redo", Head(exactFuture))
            ELSE /\ project' = next.project
                 /\ past' = Append(past, serialiseProject(project))
                 /\ future' = Tail(future)
                 /\ isDirty' = TRUE
                 /\ exactPast' = Append(exactPast, project)
                 /\ exactFuture' = Tail(exactFuture)
                 /\ lastProjectOp' = ProjectOp("redo", project, Head(exactFuture), FALSE)

\* redo().
redo ==
    /\ nProjectOps < MaxProjectOps
    /\ redoCall
    /\ UNCHANGED otherThanProject

\* What newProject() sets in the project store.
newProjectCall ==
    /\ project' = createDefaultProject
    /\ past' = <<>>
    /\ future' = <<>>
    /\ isDirty' = FALSE
    /\ exactPast' = <<>>
    /\ exactFuture' = <<>>
    /\ lastProjectOp' = ProjectOp("newProject", project, project, FALSE)
    /\ nProjectOps' = nProjectOps + 1

\* newProject().
newProject ==
    /\ nProjectOps < MaxProjectOps
    /\ newProjectCall
    /\ UNCHANGED otherThanProject

InitProject ==
    /\ project = createDefaultProject
    /\ past = <<>>
    /\ future = <<>>
    /\ isDirty = FALSE
    /\ exactPast = <<>>
    /\ exactFuture = <<>>
    /\ lastProjectOp = ProjectOp("none", createDefaultProject, createDefaultProject, FALSE)
    /\ nProjectOps = 0

NextProject ==
    \/ \E p \in NewProjects, resetHistory \in BOOLEAN : setProject(p, resetHistory)
    \/ \E partial \in KeycapPartials : updateKeycap(partial)
    \/ \E key \in {"main", "topLeft"}, partial \in LegendPartials : updateLegend(key, partial)
    \/ undo
    \/ redo
    \/ newProject

\* ----------------------------------- sceneStore: the scene tree and its ids
\* `Math.random().toString(36).slice(2, 7)`: the suffixes newId can draw.
RandomSuffixes == {"k3f9a", "x0q2z"}

\* newId() when _idCounter has been incremented to `counter`.
newId(counter, suffix) == "n" \o ToString(counter) \o "-" \o suffix

\* selectedId null.
NoSelection == ""

\* createDefaultScene(): a Group 'root' holding one keycap.
createDefaultScene(keycapId) ==
    [name |-> "New Scene",
     root |-> createGroupNode("root",
                  <<createKeycapNode(keycapId, DefaultParams, Origin, Origin)>>, Origin, Origin)]

\* Scene documents opened from a file: their ids were drawn in the session
\* that wrote them.
LoadedScenes ==
    {[name |-> "Opened",
      root |-> createGroupNode("root",
                   <<createBooleanNode("n2-k3f9a", "subtract",
                         <<createPrimitive("n3-x0q2z", "box", Origin, Origin)>>, Origin, Origin)>>,
                   Origin, Origin)],
     [name |-> "Opened",
      root |-> createGroupNode("root",
                   <<createPrimitive("n2-x0q2z", "sphere", Origin, Origin)>>, Origin, Origin)]}

\* The patches updateNode is called with.
Patches == {[position |-> "5,0,0"], [operation |-> "union"], [id |-> "root"]}

RECURSIVE findNodeById(_, _)
RECURSIVE FindAmong(_, _, _)
RECURSIVE FoundOrNext(_, _, _, _)
RECURSIVE patchNodeById(_, _, _)
RECURSIVE addChildById(_, _, _)
RECURSIVE removeNodeById(_, _)
RECURSIVE collectNodes(_)
RECURSIVE CollectAmong(_, _)

\* The loop of findNodeById after child i returned `found`.
FoundOrNext(found, children, id, i) ==
    IF found # <<>> THEN found ELSE FindAmong(children, id, i + 1)

\* The loop of findNodeById over root.children from child i on.
FindAmong(children, id, i) ==
    IF i > Len(children) THEN <<>>
    ELSE FoundOrNext(findNodeById(children[i], id), children, id, i)

\* findNodeById(root, id): <<node>>, or <<>> for null.
findNodeById(root, id) ==
    IF root.id = id THEN <<root>> ELSE FindAmong(root.children, id, 1)

\* { ...node, ...patch }; a patch with children gives the node the field.
Patched(node, patch) ==
    [Spread(node, patch) EXCEPT !.hasChildren = node.hasChildren \/ "children" \in DOMAIN patch]

\* patchNodeById(root, id, patch).
patchNodeById(root, id, patch) ==
    IF root.id = id THEN Patched(root, patch)
    ELSE IF ~root.hasChildren THEN root
    ELSE [root EXCEPT !.children = [i \in DOMAIN @ |-> patchNodeById(@[i], id, patch)]]

\* addChildById(root, parentId, child): `root.children ?? []` gives a node
\* without children the field.
addChildById(root, parentId, child) ==
    IF root.id = parentId
    THEN [root EXCEPT !.children = Append(@, child), !.hasChildren = TRUE]
    ELSE IF ~root.hasChildren THEN root
    ELSE [root EXCEPT !.children = [i \in DOMAIN @ |-> addChildById(@[i], parentId, child)]]

\* The children removeNodeById keeps.
Without(children, id) ==
    LET Kept(c) == c.id # id IN SelectSeq(children, Kept)

\* removeNodeById(root, id).
removeNodeById(root, id) ==
    IF ~root.hasChildren THEN root
    ELSE [root EXCEPT !.children =
             [i \in DOMAIN Without(@, id) |-> removeNodeById(Without(@, id)[i], id)]]

\* The ids of the nodes collectNodes gathers from a list of children.
CollectAmong(children, i) ==
    IF i > Len(children) THEN <<>>
    ELSE collectNodes(children[i]) \o CollectAmong(children, i + 1)

\* collectNodes(root), depth-first: the ids of the nodes.
collectNodes(root) == <<root.id>> \o CollectAmong(root.children, 1)

\* The ids of the nodes in the current tree.
SceneIds == {collectNodes(sceneDoc.root)[i] : i \in 1..Len(collectNodes(sceneDoc.root))}

\* What the store did last: the call and its arguments.
SceneOp(op, id, node) == [op |-> op, id |-> id, node |-> node]

\* setScene(scene).
setScene(newScene) ==
    /\ nSceneOps < MaxSceneOps
    /\ sceneDoc' = newScene
    /\ selectedId' = NoSelection
    /\ lastSceneOp' = SceneOp("setScene", "", "")
    /\ nSceneOps' = nSceneOps + 1
    /\ UNCHANGED _idCounter
    /\ UNCHANGED otherThanScene

\* selectNode(id).
selectNode(id) ==
    /\ nSceneOps < MaxSceneOps
    /\ selectedId' = id
    /\ lastSceneOp' = SceneOp("selectNode", id, "")
    /\ nSceneOps' = nSceneOps + 1
    /\ UNCHANGED <<sceneDoc, _idCounter>>
    /\ UNCHANGED otherThanScene

\* clearSelection().
clearSelection ==
    /\ nSceneOps < MaxSceneOps
    /\ selectedId' = NoSelection
    /\ lastSceneOp' = SceneOp("clearSelection", "", "")
    /\ nSceneOps' = nSceneOps + 1
    /\ UNCHANGED <<sceneDoc, _idCounter>>
    /\ UNCHANGED otherThanScene

\* updateNode(id, patch).
updateNode(id, patch) ==
    /\ nSceneOps < MaxSceneOps
    /\ sceneDoc' = [sceneDoc EXCEPT !.root = patchNodeById(@, id, patch)]
    /\ lastSceneOp' = SceneOp("updateNode", id, "")
    /\ nSceneOps' = nSceneOps + 1
    /\ UNCHANGED <<selectedId, _idCounter>>
    /\ UNCHANGED otherThanScene

\* addChildNode(parentId, node) with a node a factory has just created.
addChildNode(parentId, node) ==
    /\ nSceneOps < MaxSceneOps
    /\ sceneDoc' = [sceneDoc EXCEPT !.root = addChildById(@, parentId, node)]
    /\ selectedId' = node.id
    /\ _idCounter' = _idCounter + 1
    /\ lastSceneOp' = SceneOp("addChildNode", parentId, node.id)
    /\ nSceneOps' = nSceneOps + 1
    /\ UNCHANGED otherThanScene

\* deleteNode(id): the root is never removed.
deleteNode(id) ==
    /\ nSceneOps < MaxSceneOps
    /\ IF id = sceneDoc.root.id THEN UNCHANGED <<sceneDoc, selectedId>>
       ELSE /\ sceneDoc' = [sceneDoc EXCEPT !.root = removeNodeById(@, id)]
            /\ selectedId' = IF selectedId = id THEN NoSelection ELSE selectedId
    /\ lastSceneOp' = SceneOp("deleteNode", id, "")
    /\ nSceneOps' = nSceneOps + 1
    /\ UNCHANGED _idCounter
    /\ UNCHANGED otherThanScene

\* The add helpers: a factory creates the node, addChildNode adds it.
addBox(parentId, suffix) ==
    addChildNode(parentId, createPrimitive(newId(_idCounter + 1, suffix), "box", Origin, Origin))

addCylinder(parentId, suffix) ==
    addChildNode(parentId,
                 createPrimitive(newId(_idCounter + 1, suffix), "cylinder", Origin, Origin))

addSphere(parentId, suffix) ==
    addChildNode(parentId,
                 createPrimitive(newId(_idCounter + 1, suffix), "sphere", Origin, Origin))

addKeycap(parentId, suffix) ==
    addChildNode(parentId,
                 createKeycapNode(newId(_idCounter + 1, suffix), DefaultParams, Origin, Origin))

addBoolean(operation, parentId, suffix) ==
    addChildNode(parentId,
                 createBooleanNode(newId(_idCounter + 1, suffix), operation, <<>>, Origin, Origin))

addGroup(parentId, suffix) ==
    addChildNode(parentId, createGroupNode(newId(_idCounter + 1, suffix), <<>>, Origin, Origin))

\* The ids a caller can name: those of the tree, 'root' and the selection.
NamedIds == (SceneIds \cup {"root", selectedId}) \ {NoSelection}

\* The store after createDefaultScene(), whose keycap took the first id.
InitScene ==
    /\ sceneDoc = createDefaultScene(newId(1, "k3f9a"))
    /\ selectedId = NoSelection
    /\ _idCounter = 1
    /\ lastSceneOp = SceneOp("none", "", "")
    /\ nSceneOps = 0

NextScene ==
    \/ \E s \in LoadedScenes : setScene(s)
    \/ \E id \in NamedIds : selectNode(id)
    \/ clearSelection
    \/ \E id \in NamedIds, patch \in Patches : updateNode(id, patch)
    \/ \E id \in NamedIds : deleteNode(id)
    \/ \E parentId \in NamedIds, suffix \in RandomSuffixes : addBox(parentId, suffix)
    \/ \E parentId \in NamedIds, suffix \in RandomSuffixes : addCylinder(parentId, suffix)
    \/ \E parentId \in NamedIds, suffix \in RandomSuffixes : addSphere(parentId, suffix)
    \/ \E parentId \in NamedIds, suffix \in RandomSuffixes : addKeycap(parentId, suffix)
    \/ \E parentId \in NamedIds, suffix \in RandomSuffixes :
          addBoolean("subtract", parentId, suffix)
    \/ \E parentId \in NamedIds, suffix \in RandomSuffixes : addGroup(parentId, suffix)

\* -------------------------------- assetStore.js: the asset and its two stores
\* defaultShape3d().params (kcsDocument.js); the text and dimension fields are
\* left out, `texture` stands for them.
DefaultShape3dParams ==
    [profile |-> Str("Cherry"), size |-> Str("1u"), color |-> Str("#ffffff"),
     hasStem |-> Bool(TRUE), texture |-> Str("smooth")]

\* defaultLegend2d() (kcsDocument.js), the fields createDefaultProject has.
defaultLegend2d ==
    [keycap |-> [preset |-> Str("1u"), bgColor |-> Str("#e0e0e0"), outlineThickness |-> Num(20)],
     legends |-> [main |-> [enabled |-> Bool(TRUE), text |-> Str("A")],
                  topLeft |-> [enabled |-> Bool(FALSE), text |-> Str("")]]]

\* A .kcs.json document: asset.name, shape3d.params, legend2d.
KcsDocument(name, params, legend2d) == [name |-> name, params |-> params, legend2d |-> legend2d]

\* createDefaultKcsDocument().
createDefaultKcsDocument == KcsDocument("New Project", DefaultShape3dParams, defaultLegend2d)

\* SIZE_TO_PRESET (sizeMapping.js).
SIZE_TO_PRESET ==
    [s \in {"1u", "1.25u", "1.5u", "1.75u", "2u", "2.25u", "6.25u", "7u", "ISO-Enter"} |->
        IF s = "ISO-Enter" THEN "2.25u" ELSE s]

\* sizeToPreset(size) = mapSizeToPreset(size): null for a size not in the map.
sizeToPreset(size) ==
    IF size.t = "string" /\ size.s \in DOMAIN SIZE_TO_PRESET
    THEN Str(SIZE_TO_PRESET[size.s]) ELSE Null

\* keycapStore's initial params, the fields of DefaultShape3dParams.
KeycapStoreParams ==
    [profile |-> Str("Cherry"), size |-> Str("1u"), color |-> Str("#ffffff"),
     hasStem |-> Bool(TRUE), texture |-> Str("smooth")]

\* keycapStore's defaultParams.
defaultParams == [profile |-> Str("Cherry"), size |-> Str("1u"), color |-> Str("#ffffff")]

\* keycapStore.updateParams(newParams): merged over the params.
updateParamsCall(newParams) == Spread(keycapParams, newParams)

\* keycapStore.resetParams().
resetParamsCall == defaultParams

\* clone(obj) of a document: JSON.parse(JSON.stringify(obj)).
cloneDocument(doc) ==
    KcsDocument(doc.name, JsonObject(doc.params),
                [keycap |-> JsonObject(doc.legend2d.keycap),
                 legends |-> [k \in DOMAIN doc.legend2d.legends |->
                                 JsonObject(doc.legend2d.legends[k])]])

\* The documents loadAsset is given: validated files and presets.
LoadedDocuments ==
    {KcsDocument("Blue", [DefaultShape3dParams EXCEPT !.color = Str("#2563eb")], defaultLegend2d),
     KcsDocument("Wide", [DefaultShape3dParams EXCEPT !.size = Str("2u")],
                 [defaultLegend2d EXCEPT !.keycap.preset = Str("2u")]),
     KcsDocument("Old", [profile |-> Str("SA"), size |-> Str("1u"), color |-> Str("#ffffff"),
                         hasStem |-> Bool(FALSE)],
                 [defaultLegend2d EXCEPT !.legends.main.text = Str("Q")])}

\* The patches updateShape3dParams is given.
ParamsPatches ==
    {[size |-> Str("2u")], [size |-> Str("ISO-Enter")], [size |-> Str("2.75u")],
     [color |-> Str("#ff0000")]}

\* What the asset store did last.
AssetOp(op) == [op |-> op]

\* One call on the asset store.
AssetCall(op) ==
    /\ nAssetOps < MaxAssetOps
    /\ nAssetOps' = nAssetOps + 1
    /\ lastAssetOp' = AssetOp(op)
    /\ UNCHANGED otherThanAsset

\* The project loadAsset pushes to the project store.
ProjectMod(fresh) ==
    [version |-> Num(10), keycap |-> fresh.legend2d.keycap, legends |-> fresh.legend2d.legends]

\* loadAsset(doc, { resetDirty }).
loadAsset(doc, resetDirty) ==
    /\ AssetCall("loadAsset")
    /\ asset' = cloneDocument(doc)
    /\ assetDirty' = ~resetDirty
    /\ setProjectCall(ProjectMod(cloneDocument(doc)), resetDirty)
    /\ keycapParams' = updateParamsCall(cloneDocument(doc).params)

\* newAsset().
newAsset ==
    /\ AssetCall("newAsset")
    /\ asset' = createDefaultKcsDocument
    /\ assetDirty' = FALSE
    /\ newProjectCall
    /\ keycapParams' = resetParamsCall

\* `paramsPatch.size !== undefined && paramsPatch.size !== prevSize`, and
\* sizeToPreset knows the size.
SizeSyncs(paramsPatch) ==
    /\ Prop(paramsPatch, "size") # Undefined
    /\ paramsPatch.size # asset.params.size
    /\ sizeToPreset(paramsPatch.size) # Null

\* updatedLegend2d of updateShape3dParams.
UpdatedLegend2d(paramsPatch) ==
    IF SizeSyncs(paramsPatch)
    THEN [asset.legend2d EXCEPT
             !.keycap = Spread(@, [preset |-> sizeToPreset(paramsPatch.size)])]
    ELSE asset.legend2d

\* updateShape3dParams(paramsPatch).
updateShape3dParams(paramsPatch) ==
    /\ AssetCall("updateShape3dParams")
    /\ IF SizeSyncs(paramsPatch)
       THEN updateKeycapCall([preset |-> sizeToPreset(paramsPatch.size)])
       ELSE UNCHANGED psVars
    /\ asset' = cloneDocument(KcsDocument(asset.name, Spread(asset.params, paramsPatch),
                                          UpdatedLegend2d(paramsPatch)))
    /\ assetDirty' = TRUE
    /\ keycapParams' = updateParamsCall(Spread(asset.params, paramsPatch))

\* syncLegend2dFromProject().
syncLegend2dFromProject ==
    /\ AssetCall("syncLegend2dFromProject")
    /\ asset' = cloneDocument(KcsDocument(asset.name, asset.params,
                                          [keycap |-> project.keycap, legends |-> project.legends]))
    /\ assetDirty' = TRUE
    /\ UNCHANGED <<keycapParams, psVars>>

\* setAssetName(name).
setAssetName(name) ==
    /\ AssetCall("setAssetName")
    /\ asset' = cloneDocument([asset EXCEPT !.name = name])
    /\ assetDirty' = TRUE
    /\ UNCHANGED <<keycapParams, psVars>>

\* markSaved().
markSaved ==
    /\ AssetCall("markSaved")
    /\ assetDirty' = FALSE
    /\ UNCHANGED <<asset, keycapParams, psVars>>

\* An edit in the 2D editor: projectStore.updateKeycap(partial), called
\* directly.
EditKeycap2D(partial) ==
    /\ AssetCall("projectStore.updateKeycap")
    /\ updateKeycapCall(partial)
    /\ UNCHANGED <<asset, assetDirty, keycapParams>>

\* The stores after construction.
InitAsset ==
    /\ asset = createDefaultKcsDocument
    /\ assetDirty = FALSE
    /\ keycapParams = KeycapStoreParams
    /\ lastAssetOp = AssetOp("none")
    /\ nAssetOps = 0

NextAsset ==
    \/ \E doc \in LoadedDocuments, resetDirty \in BOOLEAN : loadAsset(doc, resetDirty)
    \/ newAsset
    \/ \E paramsPatch \in ParamsPatches : updateShape3dParams(paramsPatch)
    \/ syncLegend2dFromProject
    \/ \E name \in {"My Keycap"} : setAssetName(name)
    \/ markSaved
    \/ \E partial \in {[bgColor |-> Str("#ff0000")]} : EditKeycap2D(partial)

\* ------------------------------- useExportController: the export lifecycle
\* The errors a task can throw: one with a message, one without.
TaskErrors == {"No geometry", ""}

\* How a task ends: it fulfils, or throws one of TaskErrors.
TaskOutcomes == {[kind |-> "fulfil", message |-> ""]} \cup
                {[kind |-> "throw", message |-> e] : e \in TaskErrors}

\* The opts runExport is given; a field left out is undefined.
ExportOpts ==
    {[none |-> TRUE],
     [initialStage |-> "Exporting STL", successMessage |-> "STL exported"],
     [successToast |-> FALSE],
     [errorMessageMapper |-> "friendly"],
     [errorMessageMapper |-> "null"]}

\* opts.initialStage ?? 'Preparing export...'.
InitialStage(opts) ==
    IF "initialStage" \in DOMAIN opts THEN opts.initialStage ELSE "Preparing export"

\* The toasts of the success path.
SuccessToasts(opts) ==
    IF "successToast" \in DOMAIN opts /\ opts.successToast = FALSE THEN <<>>
    ELSE IF "successMessage" \in DOMAIN opts THEN <<<<opts.successMessage, "success">>>>
    ELSE <<<<"Export complete", "success">>>>

\* opts.errorMessageMapper?.(e) ?? (e?.message ? `Export failed: ${e.message}`
\* : 'Export failed').
ErrorMessage(opts, message) ==
    IF "errorMessageMapper" \in DOMAIN opts /\ opts.errorMessageMapper = "friendly"
    THEN "Could not export"
    ELSE IF message # "" THEN "Export failed: " \o message
    ELSE "Export failed"

\* One runExport call: where it is, its opts, how its task will end, and
\* whether an earlier call's task had not settled when it was made.
ExportCall(pc, opts, outcome, busy) ==
    [pc |-> pc, opts |-> opts, outcome |-> outcome, madeWhileBusy |-> busy]

\* The calls that were accepted and whose task has not settled.
InFlight == {c \in DOMAIN exportCalls : exportCalls[c].pc \in {"frame", "task"}}

\* The lock is taken only once a task runs.
RefusedWhileTaskRuns == \E c \in DOMAIN exportCalls : exportCalls[c].pc = "task"

\* `if (lockRef.current) return`.
Refused == lockRef

\* runExport(task, opts) up to `await nextFrame()`.
runExport(outcome, opts) ==
    /\ Len(exportCalls) < MaxExportCalls
    /\ IF Refused
       THEN /\ exportCalls' = Append(exportCalls,
                                      ExportCall("returned", opts, outcome, InFlight # {}))
            /\ UNCHANGED <<lockRef, isExporting, stage, exportError>>
       ELSE /\ exportCalls' = Append(exportCalls,
                                      ExportCall("frame", opts, outcome, InFlight # {}))
            /\ lockRef' = TRUE
            /\ exportError' = ""
            /\ stage' = InitialStage(opts)
            /\ isExporting' = TRUE
    /\ UNCHANGED <<toasts, stageTimers>>
    /\ UNCHANGED otherThanExportCtl

\* The animation frame of nextFrame() fires: call c starts its task.
TaskStarts(c) ==
    /\ exportCalls[c].pc = "frame"
    /\ exportCalls' = [exportCalls EXCEPT ![c].pc = "task"]
    /\ UNCHANGED <<lockRef, isExporting, stage, exportError, toasts, stageTimers>>
    /\ UNCHANGED otherThanExportCtl

\* The task of call c calls setStage.
TaskSetsStage(c, text) ==
    /\ exportCalls[c].pc = "task"
    /\ stage # text
    /\ stage' = text
    /\ UNCHANGED <<lockRef, isExporting, exportError, toasts, stageTimers, exportCalls>>
    /\ UNCHANGED otherThanExportCtl

\* The reset at the end of the try block: a task that throws skips it.
ResetInTry(c) ==
    IF exportCalls[c].outcome.kind = "fulfil"
    THEN isExporting' = FALSE /\ lockRef' = FALSE /\ stageTimers' = stageTimers + 1
    ELSE UNCHANGED <<isExporting, lockRef, stageTimers>>

\* The finally block of call c.
Finally(c) ==
    /\ isExporting' = FALSE
    /\ lockRef' = FALSE
    /\ stageTimers' = stageTimers + 1

\* The task of call c settles: the rest of the try, the catch and the finally.
TaskSettles(c) ==
    /\ exportCalls[c].pc = "task"
    /\ exportCalls' = [exportCalls EXCEPT ![c].pc = "done"]
    /\ IF exportCalls[c].outcome.kind = "fulfil"
       THEN /\ toasts' = toasts \o SuccessToasts(exportCalls[c].opts)
            /\ UNCHANGED exportError
       ELSE /\ exportError' = ErrorMessage(exportCalls[c].opts, exportCalls[c].outcome.message)
            /\ toasts' = Append(toasts,
                   <<ErrorMessage(exportCalls[c].opts, exportCalls[c].outcome.message), "error">>)
    /\ Finally(c)
    /\ UNCHANGED stage
    /\ UNCHANGED otherThanExportCtl

\* A `setTimeout(() => setStage(''), 150)` fires.
StageTimerFires ==
    /\ stageTimers > 0
    /\ stageTimers' = stageTimers - 1
    /\ stage' = ""
    /\ UNCHANGED <<lockRef, isExporting, exportError, toasts, exportCalls>>
    /\ UNCHANGED otherThanExportCtl

\* The hook after its first render.
InitExportCtl ==
    /\ lockRef = FALSE
    /\ isExporting = FALSE
    /\ stage = ""
    /\ exportError = ""
    /\ toasts = <<>>
    /\ stageTimers = 0
    /\ exportCalls = <<>>

NextExportCtl ==
    \/ \E outcome \in TaskOutcomes, opts \in ExportOpts : runExport(outcome, opts)
    \/ \E c \in DOMAIN exportCalls : TaskStarts(c)
    \/ \E c \in DOMAIN exportCalls : TaskSetsStage(c, "Generating STL")
    \/ \E c \in DOMAIN exportCalls : TaskSettles(c)
    \/ StageTimerFires

\* ------------------------- AsyncKeycapGenerator: the cache when it is full
\* The k-th of the params the generator is asked for one after another: they
\* differ in topRadius, and so in their cache key.
NthParams(k) ==
    [profile |-> Str("Cherry"), size |-> Str("1u"), hasStem |-> Bool(TRUE),
     topRadius |-> Num(k), wallThickness |-> Num(15)]

\* The keys of the cache, in Map order.
CachedKeys(cache) == [i \in 1..Len(cache) |-> cache[i].key]

\* `uses` after a use of `key`: the key becomes the most recently used.
Used(uses, key) == Append(SelectSeq(uses, LAMBDA u : u # key), key)

\* The cached key that was used least recently.
LeastRecentlyUsed(uses, cache) ==
    LET cached == SelectSeq(uses, LAMBDA u : CachedAt(cache, u) # {})
    IN IF cached = <<>> THEN "" ELSE Head(cached)

\* The key _addToCache drops when it adds `key` to `cache`, "" when none.
Dropped(cache, key) ==
    IF CachedAt(cache, key) = {} /\ Len(cache) + 1 > maxCacheSize THEN cache[1].key ELSE ""

\* Params never asked for before, or the params of the oldest cached entry.
AskedNext(k) ==
    \/ k = nFresh + 1
    \/ agCache # <<>> /\ NthParams(k) = agCache[1].value.params

\* generateAsync(params) with the k-th params.
AskFor(k) ==
    /\ agCalls < MaxFillCalls
    /\ AskedNext(k)
    /\ k = nFresh + 1 \/ Len(agHits) < MaxFillHits
    /\ generateAsyncCall("full", NthParams(k))
    /\ nFresh' = IF k = nFresh + 1 THEN k ELSE nFresh
    /\ agUses' = IF CachedAt(agCache, _getCacheKey(NthParams(k))) # {}
                 THEN Used(agUses, _getCacheKey(NthParams(k)))
                 ELSE agUses
    /\ UNCHANGED agEvicted
    /\ UNCHANGED otherThanFill

\* The oldest pending setTimeout callback runs on the filling cache.
FillTimerFires ==
    /\ TimerCallback
    /\ agUses' = Used(agUses, Head(agTimers).key)
    /\ agEvicted' = IF Dropped(agCache, Head(agTimers).key) # ""
                    THEN [key |-> Dropped(agCache, Head(agTimers).key),
                          leastRecentlyUsed |-> LeastRecentlyUsed(agUses, agCache)]
                    ELSE agEvicted
    /\ UNCHANGED nFresh
    /\ UNCHANGED otherThanFill

InitFill ==
    /\ agUses = <<>>
    /\ agEvicted = [key |-> "", leastRecentlyUsed |-> ""]
    /\ nFresh = 0

NextFill ==
    \/ \E k \in 1..MaxFillCalls : AskFor(k)
    \/ FillTimerFires

\* ------------------------------- Keycap.jsx: the Preview cache when it is full
\* The k-th of the shapes that are previewed one after another: they differ in
\* topRadius, and so in their cache key.
NthPreview(k) ==
    [profile |-> Str("Cherry"), size |-> Str("1u"), topRadius |-> Num(k),
     dishDepth |-> Null, height |-> Null]

\* A shape never previewed before, or the shape of the oldest cached entry.
PreviewedNext(k) ==
    \/ k = Len(pvHeap) + 1
    \/ _geoCache # <<>> /\ PreviewKey(NthPreview(k)) = _geoCache[1].key

\* _getPreviewGeometry for the k-th shape.
PreviewShape(k) ==
    /\ Len(lookups) < MaxPreviewFill
    /\ PreviewedNext(k)
    /\ k = Len(pvHeap) + 1 \/ Len(lookups) - Len(pvHeap) < MaxFillHits
    /\ getPreviewGeometryCall(NthPreview(k))
    /\ UNCHANGED otherThanPreview

NextPreviewFill == \E k \in 1..MaxPreviewFill : PreviewShape(k)

\* ------------------------------ projectStore.js: the undo stack when it fills
\* The k-th edit of a long session: each one sets another outline thickness,
\* so that every snapshot of the stack differs from the others.
NthEdit(k) == [outlineThickness |-> Num(k)]

\* Undo and redo are interleaved with the edits once the undo stack is within
\* HistoryMargin of MAX_HISTORY, or while there is something to redo.
NearFull == Len(past) + HistoryMargin >= MAX_HISTORY \/ Len(future) > 0

\* updateKeycap(partial), as the next edit of the session.
EditsNext ==
    /\ nProjectOps < MaxHistoryOps
    /\ updateKeycapCall(NthEdit(nProjectOps + 1))
    /\ UNCHANGED otherThanProject

\* undo(), late in the session.
UndoesLate ==
    /\ nProjectOps < MaxHistoryOps
    /\ NearFull
    /\ undoCall
    /\ UNCHANGED otherThanProject

\* redo(), late in the session.
RedoesLate ==
    /\ nProjectOps < MaxHistoryOps
    /\ NearFull
    /\ redoCall
    /\ UNCHANGED otherThanProject

NextHistoryFill ==
    \/ EditsNext
    \/ UndoesLate
    \/ RedoesLate

\* ------------------------------------------------------- specifications
InitShim ==
    /\ _worker = 0
    /\ _exportQueue = <<>>
    /\ nWorkers = 0
    /\ inbox = [w \in 1..MaxWorkers |-> <<>>]
    /\ outbox = [w \in 1..MaxWorkers |-> <<>>]
    /\ reqs = <<>>
    /\ settledOrder = <<>>
    /\ crashed = {}
    /\ nCrashes = 0

Init == InitShim /\ InitExportCache /\ InitPreview /\ InitAsync /\ InitEval /\ InitProject /\ InitScene /\ InitAsset /\ InitExportCtl /\ InitFill

NextShim ==
    \/ \E scene \in Scenes, ctorOK \in BOOLEAN : ExportInWorker(scene, ctorOK)
    \/ \E w \in 1..MaxWorkers : WorkerOnMessage(w)
    \/ \E w \in 1..MaxWorkers, msg \in CrashMsgs : WorkerRaiseError(w, msg)
    \/ \E w \in 1..MaxWorkers : OnMessage(w)
    \/ \E w \in 1..MaxWorkers : OnError(w)

SpecShim == Init /\ [][NextShim]_vars

SpecExportKeys == Init /\ [][NextExportKeys]_vars

SpecExportCache == Init /\ [][NextExportCache]_vars

SpecPreview == Init /\ [][NextPreview]_vars

SpecAsync == Init /\ [][NextAsync]_vars

SpecEval == Init /\ [][NextEval]_vars

SpecProject == Init /\ [][NextProject]_vars

SpecScene == Init /\ [][NextScene]_vars

SpecAsset == Init /\ [][NextAsset]_vars

SpecExportCtl == Init /\ [][NextExportCtl]_vars

SpecAsyncFill == Init /\ [][NextFill]_vars

SpecPreviewFill == Init /\ [][NextPreviewFill]_vars

SpecHistoryFill == Init /\ [][NextHistoryFill]_vars

TypeShim ==
    /\ _worker \in 0..MaxWorkers
    /\ nWorkers \in 0..MaxWorkers
    /\ Len(reqs) <= MaxReq
\* ------------------------------------------------ claims: the export shim

Increasing(seq) == \A i, j \in 1..Len(seq) : i < j => seq[i] < seq[j]

Posted(r) == reqs[r].postedTo # 0

PostedOnly(seq) == SelectSeq(seq, Posted)

\* C1 (as stated): the promises of all export requests are settled in exactly
\* the order in which the requests were submitted to the shim.
C1_AllSettledInSubmissionOrder == Increasing(settledOrder)

\* C1 (amended): the pending queue is never reordered, and the promises of the
\* requests whose message was posted to a worker are settled in the order in
\* which they were submitted; a request rejected as worker_unavailable is
\* settled at once, whatever is still pending before it.
C1_PostedSettledInSubmissionOrder ==
    /\ Increasing(_exportQueue)
    /\ Increasing(PostedOnly(settledOrder))

\* C1 witness: two posted requests were answered by the worker in turn, and a
\* request that could not be posted was rejected ahead of an older one.
C1_Witness ==
    /\ \E i, j \in 1..Len(settledOrder) :
          /\ i < j
          /\ Posted(settledOrder[i]) /\ Posted(settledOrder[j])
          /\ reqs[settledOrder[i]].value.origin \in {"worker", "response"}
          /\ reqs[settledOrder[j]].value.origin \in {"worker", "response"}
    /\ ~Increasing(settledOrder)

\* The responses to request r that workers have posted and the main thread
\* has not handled yet.
ResponsesInFlight(r) ==
    {wi \in (1..MaxWorkers) \X (1..(MaxReq + MaxCrashes)) :
        /\ wi[2] <= Len(outbox[wi[1]])
        /\ outbox[wi[1]][wi[2]].kind \in {"buffer", "error"}
        /\ outbox[wi[1]][wi[2]].of = r}

\* C2 (as stated): every request message gets exactly one response and every
\* export promise is settled exactly once: a request never has two responses,
\* and no promise is still pending once the worker's response to its request
\* has been delivered.
C2_SettledExactlyOnce ==
    \A r \in 1..Len(reqs) :
        /\ Cardinality(ResponsesInFlight(r)) + (IF reqs[r].responded THEN 1 ELSE 0) <= 1
        /\ reqs[r].responded => reqs[r].promise # "pending"

\* An error event of worker w is being delivered to w.onerror in this step.
ErrorDelivered ==
    \E w \in 1..MaxWorkers :
        /\ outbox[w] # <<>>
        /\ Head(outbox[w]).kind = "crash"
        /\ outbox'[w] = Tail(outbox[w])

\* C3: when the worker raises an uncaught error, every pending request is
\* rejected (the oldest with the event's message), the queue is left empty and
\* the handle is discarded; a request submitted later is posted to a freshly
\* constructed worker, never to one that crashed.
C3_CrashRejectsAllAndDiscards ==
    [][ /\ ErrorDelivered =>
            /\ _exportQueue' = <<>>
            /\ _worker' = 0
            /\ \A i \in 1..Len(_exportQueue) :
                  LET r == _exportQueue[i] IN
                  /\ reqs'[r].promise = "rejected"
                  /\ reqs[r].promise = "pending" => reqs'[r].value.origin = "crash"
        /\ (Len(reqs') > Len(reqs) /\ reqs'[Len(reqs')].postedTo # 0) =>
            /\ reqs'[Len(reqs')].postedTo \notin crashed
            /\ _worker = 0 => reqs'[Len(reqs')].postedTo = nWorkers + 1
      ]_vars

\* C3 witness: a crash rejected two pending requests and a later request was
\* posted to a worker constructed after it.
C3_Witness ==
    \E r1, r2, r3 \in 1..Len(reqs) :
        /\ r1 < r2 /\ r2 < r3
        /\ reqs[r1].value.origin = "crash"
        /\ reqs[r2].value.origin = "crash"
        /\ reqs[r2].value.msg = "Worker crashed"
        /\ reqs[r3].postedTo \notin crashed \cup {0}
        /\ reqs[r1].postedTo \in crashed

\* C4 (as stated): exportSceneSTL takes the synchronous fallback both when
\* constructing the worker fails and when the worker raises a runtime error
\* while the request is pending, and then obtains the STL bytes from it.
C4_FallbackOnBothFailures ==
    \A r \in 1..Len(reqs) :
        (reqs[r].promise = "rejected" /\ reqs[r].value.origin \in {"construct", "crash"})
            => /\ reqs[r].usedFallback
               /\ reqs[r].scene.evalErr = "none" => reqs[r].out = Bytes(r, "fallback")

\* C5 (as stated): when the fallback evaluation fails too, the error the
\* caller of exportSceneSTL sees is the original worker-transport error.
C5_OriginalErrorSurfaced ==
    \A r \in 1..Len(reqs) :
        (reqs[r].call = "failed" /\ reqs[r].usedFallback)
            => reqs[r].out = reqs[r].value

\* C6 (as stated): an {error} response of a running worker is always surfaced
\* as a failure and never triggers the main-thread fallback, whatever its
\* message is.
C6_ErrorResponseNeverFallsBack ==
    \A r \in 1..Len(reqs) :
        (reqs[r].promise = "rejected" /\ reqs[r].value.origin = "response")
            => /\ ~reqs[r].usedFallback
               /\ reqs[r].call = "failed"
               /\ reqs[r].out = reqs[r].value
\* ------------------------------------------------ claims: the Export cache

GenerateCallsFor(shape) ==
    Cardinality({j \in 1..Len(generateSpy) : ShapeParams(generateSpy[j]) = shape})

C8_ReturnedGeometryUntouched ==
    \A j \in 1..Len(meshes) : ~meshes[j].returned.mutated

\* C8 witness: the mesh of a miss and the mesh of a hit on its entry were both
\* mutated before a third evaluation with the same key returned.
C8_Witness ==
    \E j \in 1..Len(meshes) :
        /\ Cardinality(meshes[j].priorMutated) = 2
        /\ \A i \in meshes[j].priorMutated : meshes[i].key = meshes[j].key
        /\ meshes[j].geometry \notin {meshes[i].geometry : i \in meshes[j].priorMutated}
        /\ Len(generateSpy) = 1 /\ Len(evaluated) = 3
\* ----------------------------------------------- claims: the Preview cache

\* C9 (as stated): every geometry the Preview cache hands out is a clone: two
\* lookups with the same key never return the same object, and no lookup
\* returns geometry carrying a mutation made by the caller of an earlier one.
C9_LookupsReturnClones ==
    \A i, j \in 1..Len(lookups) :
        /\ (i < j /\ lookups[i].key = lookups[j].key) => lookups[i].obj # lookups[j].obj
        /\ ~lookups[j].returned.mutated

\* -------------------------------------------- claims: AsyncKeycapGenerator

\* C10: every cached result was generated under the current performance mode,
\* and every cache hit returned a result generated under the mode that was
\* current at the hit, also when its generation was requested under another
\* mode and completed after the change.
C10_NoStaleModeFromCache ==
    /\ \A i \in 1..Len(agCache) : agCache[i].value.mode = agMode
    /\ \A i \in 1..Len(agHits) : agHits[i].value.mode = agHits[i].modeAtHit

\* C10 witness: a generation requested under one mode completed after the
\* change to another, and a lookup then hit its entry.
C10_Witness ==
    \E i \in 1..Len(agHits) :
        /\ agHits[i].value.requestedUnder # agHits[i].value.mode
        /\ agHits[i].modeAtHit = agHits[i].value.mode

\* --------------------------------------- claims: the scene tree evaluator

TraceRuns == {evalRun.trace[i] : i \in 1..Len(evalRun.trace)}

\* The Boolean Mesh Operator calls made during the evalNode call t.
CallsDuring(t) == SubSeq(evalRun.calls, t.callsFrom + 1, t.callsTo)

\* Those of them the node of t made itself, in its own combine loop.
OwnCalls(t) ==
    LET Own(c) == c.by = t.id IN SelectSeq(CallsDuring(t), Own)

\* The method a Boolean node's operation names; subtract when absent or
\* unrecognised.
NamedMethod(operation) ==
    IF operation \in {"union", "subtract", "intersect"} THEN operation ELSE "subtract"

\* A Boolean node evaluated in Export mode with n >= 2 children that all
\* evaluated to a mesh.
CombinesMeshes(t) ==
    /\ t.type = "Boolean" /\ t.mode = "export" /\ t.nChildren >= 2
    /\ Len(t.kids) = t.nChildren
    /\ \A i \in 1..Len(t.kids) : t.kids[i].kind = "Mesh"

\* C11 as stated: evaluating a Boolean node in Export mode with n >= 2
\* children that all evaluate to a mesh invokes the Boolean Mesh Operator
\* exactly n-1 times, always with the method the node's operation names and
\* never with another method.
C11_OnlyNMinusOneCallsOfTheMethod ==
    \A t \in TraceRuns : CombinesMeshes(t) =>
        /\ Len(CallsDuring(t)) = t.nChildren - 1
        /\ \A k \in 1..Len(CallsDuring(t)) :
              CallsDuring(t)[k].method = NamedMethod(t.operation)

\* C11 amended: the node's own combine step makes exactly n-1 Boolean Mesh
\* Operator calls, each with the method its operation names (subtract when
\* absent or unrecognised), the k-th call combining child k+1 into the
\* accumulator of the calls before it, left to right; the calls made while
\* the children themselves are evaluated come on top of these.
C11_OwnCombineCallsInChildOrder ==
    \A t \in TraceRuns : CombinesMeshes(t) =>
        LET cs == OwnCalls(t) IN
        /\ Len(cs) = t.nChildren - 1
        /\ \A k \in 1..Len(cs) :
              /\ cs[k].method = NamedMethod(t.operation)
              /\ cs[k].right = FromMesh(t.kids[k + 1])
              /\ cs[k].left = IF k = 1 THEN FromMesh(t.kids[1])
                              ELSE cs[k - 1].method \o "(" \o cs[k - 1].left \o ","
                                       \o cs[k - 1].right \o ")"

\* A Boolean node without an operation combined its three meshes.
C11_Witness ==
    \E t \in TraceRuns :
        /\ CombinesMeshes(t) /\ t.nChildren = 3 /\ t.operation = ""
        /\ t.result.kind = "Mesh"

\* C12: in both modes a Boolean node with zero children evaluates to null and
\* one with exactly one child evaluates to that child's result, unchanged.
C12_EmptyIsNullSingleChildPassesThrough ==
    \A t \in TraceRuns : t.type = "Boolean" =>
        /\ t.nChildren = 0 => t.result.kind = "null"
        /\ t.nChildren = 1 /\ Len(t.kids) = 1 => t.result = t.kids[1]

\* C13: an evaluation in Preview mode never invokes a Boolean Mesh Operator
\* method, whatever the tree.
C13_PreviewNeverCallsOperator ==
    evalRun.mode = "preview" => evalRun.calls = <<>>

\* A Preview evaluation of a tree with a Boolean node of two children and an
\* embossed KeycapTemplate node below the root.
C13_Witness ==
    /\ evalRun.mode = "preview"
    /\ evalRun.root = "root"
    /\ \E t \in TraceRuns : t.type = "Boolean" /\ t.nChildren >= 2
    /\ \E t \in TraceRuns : t.type = "KeycapTemplate" /\ t.result.kind = "Mesh"

\* C14: every non-null result of evaluating a node carries that node's own
\* position and rotation, for every node type and both modes.
C14_OwnTransformApplied ==
    \A t \in TraceRuns : t.result.kind \in {"Mesh", "Group"} =>
        /\ t.position # "" => t.result.position = t.position
        /\ t.rotation # "" => t.result.rotation = t.rotation

\* C15: when a Boolean Mesh Operator call fails while generate hollows the
\* shell or cuts the stem cross, generate does not throw and returns the
\* shell as it was before the boolean step.
C15_SubtractFailureReturnsShell ==
    \A i \in 1..Len(evalRun.gens) :
        evalRun.gens[i].failed = "subtract" =>
            ~evalRun.gens[i].threw /\ evalRun.gens[i].returned = evalRun.gens[i].shell

\* ------------------------------------------------ claims: the project store

\* deserialiseProject(serialiseProject(p)): what a snapshot of p reads back as.
RoundTrip(p) == deserialiseProject(serialiseProject(p))

\* A version-1 project of plain JSON data with a canonical preset key.
PlainData(p) ==
    /\ p.version = Num(10)
    /\ \A k \in DOMAIN p.keycap : p.keycap[k] \notin {NaN, Undefined}
    /\ Prop(p.keycap, "preset") \notin {Str("Shift"), Str("Enter")}
    /\ \A l \in DOMAIN p.legends : \A k \in DOMAIN p.legends[l] :
          p.legends[l][k] \notin {NaN, Undefined}

UniqueIds(ids) == \A i, j \in 1..Len(ids) : i # j => ids[i] # ids[j]

\* C17: in every scene tree the scene store's operations reach (setScene
\* with a tree of unique ids, the add helpers and addChildNode with a node a
\* factory created, updateNode, deleteNode) no two nodes have the same id.
C17_NodeIdsUnique == UniqueIds(collectNodes(sceneDoc.root))

\* ------------------------------------------------------------------- C18
\* The node addChildNode's parentId names, in the tree after the call.
NamedParent == findNodeById(sceneDoc.root, lastSceneOp.id)

\* The node the last addChildNode created is the last child of `parent`.
LastChildOf(parent) ==
    /\ parent.children # <<>>
    /\ parent.children[Len(parent.children)].id = lastSceneOp.node

\* C18: after addChildNode(parentId, node) the node is the last child of the
\* node parentId names when that node is a Group or a Boolean; when it is a
\* Primitive or a KeycapTemplate the node is the last child of the root and
\* the named parent has no children.
C18_LeafParentFallsBackToRoot ==
    (lastSceneOp.op = "addChildNode" /\ NamedParent # <<>> /\ UniqueIds(collectNodes(sceneDoc.root)))
        => IF NamedParent[1].type \in {"Group", "Boolean"}
           THEN LastChildOf(NamedParent[1])
           ELSE LastChildOf(sceneDoc.root) /\ ~NamedParent[1].hasChildren

\* ------------------------------------------------------------------- C19
\* The two driven stores hold what the asset holds.
StoresReflectAsset ==
    /\ keycapParams = asset.params
    /\ project.keycap = asset.legend2d.keycap
    /\ project.legends = asset.legend2d.legends

\* C19: after loadAsset, newAsset and updateShape3dParams keycapStore.params
\* equals asset.shape3d.params, and the project's keycap and legends equal
\* those of asset.legend2d.
C19_StoresReflectAssetAfterAssetOps ==
    lastAssetOp.op \in {"loadAsset", "newAsset", "updateShape3dParams"} => StoresReflectAsset

\* ------------------------------------------------------------------- C20
\* C20: at most one accepted runExport call has a task that has not settled,
\* and a call made while an earlier call's task had not settled returned
\* without starting its task.
C20_OneExportInFlight ==
    /\ Cardinality(InFlight) <= 1
    /\ \A c \in DOMAIN exportCalls :
          exportCalls[c].madeWhileBusy => exportCalls[c].pc = "returned"

\* A call was refused while the task of an earlier one was running.
C20_Witness ==
    \E c, e \in DOMAIN exportCalls :
        /\ e < c
        /\ exportCalls[e].pc = "task"
        /\ exportCalls[c].madeWhileBusy
        /\ exportCalls[c].pc = "returned"

\* ------------------------------------------------------------------- C21
\* C21: once the task of every accepted call has settled, by fulfilling or by
\* throwing, isExporting is false and the lock is free, and a runExport call
\* made then is accepted: it takes the lock and goes on to its task.
C21_SettledTaskLeavesControllerIdle ==
    /\ InFlight = {} => ~lockRef /\ ~isExporting
    /\ \A c \in DOMAIN exportCalls :
          ~exportCalls[c].madeWhileBusy => exportCalls[c].pc \in {"frame", "task", "done"}

\* A task threw, and the call made after it runs its task.
C21_Witness ==
    \E c, e \in DOMAIN exportCalls :
        /\ c < e
        /\ exportCalls[c].pc = "done"
        /\ exportCalls[c].outcome.kind = "throw"
        /\ ~exportCalls[e].madeWhileBusy
        /\ exportCalls[e].pc = "task"

\* ------------------------------------------------------------------- C22
\* C22: the AsyncKeycapGenerator cache never holds more than 15 results, and
\* the entry an insertion evicts is the least recently used one, insertions
\* and cache hits both counting as uses.
C22_EvictsLeastRecentlyUsed ==
    /\ Len(agCache) <= maxCacheSize
    /\ agEvicted.key = agEvicted.leastRecentlyUsed

\* ------------------------------------------------------------------- C23
\* How many times `new Worker(...)` was invoked: the workers constructed and
\* the calls in which the constructor threw.
ConstructorCalls ==
    nWorkers + Cardinality({r \in DOMAIN reqs : reqs[r].value.origin = "construct"})

\* C23: across export calls with no worker error the Worker constructor is
\* invoked exactly once and every request is posted to that one worker.
C23_OneConstructorCallEveryRequestPosted ==
    (nCrashes = 0 /\ reqs # <<>>) =>
        /\ ConstructorCalls = 1
        /\ \A r \in DOMAIN reqs : reqs[r].postedTo = 1

\* C23 as the code has it: a worker is constructed only in an export call
\* made while there is no handle, and it becomes the handle; with no worker
\* error at most one worker is constructed, every request that is posted is
\* posted to it, and a request that is not posted is one whose constructor
\* call or postMessage threw.
C23_WorkerCreatedLazilyAndReused ==
    /\ [](nCrashes = 0 =>
            /\ nWorkers <= 1
            /\ _worker = nWorkers
            /\ \A r \in DOMAIN reqs :
                  \/ reqs[r].postedTo = 1
                  \/ /\ reqs[r].postedTo = 0
                     /\ reqs[r].value.msg = WORKER_UNAVAILABLE
                     /\ reqs[r].value.origin \in {"construct", "post"})
    /\ [][nWorkers' # nWorkers =>
            /\ _worker = 0
            /\ Len(reqs') = Len(reqs) + 1
            /\ nWorkers' = nWorkers + 1
            /\ _worker' = nWorkers']_vars

\* Three exports were posted to the one worker, none of them after an error.
C23_Witness ==
    /\ nCrashes = 0
    /\ nWorkers = 1
    /\ Len(reqs) >= 3
    /\ \A r \in DOMAIN reqs : reqs[r].postedTo = 1

\* ------------------------------------------------------------------- C24
\* The keys of the lookups that missed, in the order of the misses: the order
\* in which keys were inserted.
InsertedKeys(ls) ==
    LET misses == SelectSeq(ls, LAMBDA l : ~l.hit) IN [i \in 1..Len(misses) |-> misses[i].key]

\* The place of the last insertion of `key`.
LastInsertion(inserted, key) ==
    CHOOSE i \in 1..Len(inserted) :
        inserted[i] = key /\ \A j \in (i + 1)..Len(inserted) : inserted[j] # key

\* The cached key that was inserted earliest.
EarliestInserted(cache, ls) ==
    CHOOSE k \in {cache[i].key : i \in 1..Len(cache)} :
        \A i \in 1..Len(cache) :
            LastInsertion(InsertedKeys(ls), k) <= LastInsertion(InsertedKeys(ls), cache[i].key)

\* The keys a miss leaves in the cache.
KeysAfterMiss(cache, ls, key) ==
    IF Len(cache) = _GEO_CACHE_MAX
    THEN Append(SelectSeq(CachedKeys(cache), LAMBDA k : k # EarliestInserted(cache, ls)), key)
    ELSE Append(CachedKeys(cache), key)

PushedSnapshot ==
    /\ nProjectOps' = nProjectOps + 1
    /\ \/ lastProjectOp'.op \in {"updateKeycap", "updateLegend"}
       \/ lastProjectOp'.op = "setProject" /\ isDirty'

\* C25: the undo stack never holds more than MAX_HISTORY (100) snapshots,
\* whatever the interleaving of mutations, undo and redo, and a mutation made
\* on a full stack drops the oldest snapshot: the stack becomes the other 99,
\* in order, followed by the snapshot of the project the mutation replaced.
C25_UndoStackHoldsAtMostHundred ==
    /\ [](Len(past) <= MAX_HISTORY)
    /\ [][PushedSnapshot /\ Len(past) = MAX_HISTORY =>
            past' = Append(Tail(past), serialiseProject(project))]_vars

\* A mutation was made on a full stack: the stack is full and the first
\* snapshot of the session, the default project, is no longer in it.
C25_Witness ==
    /\ Len(past) = MAX_HISTORY
    /\ nProjectOps > MAX_HISTORY
    /\ lastProjectOp.op = "updateKeycap"
    /\ past[1] # serialiseProject(createDefaultProject)
    /\ past[MAX_HISTORY] = serialiseProject(lastProjectOp.before)

\* ------------------------------------------ claims: the pending export queue
\* Request r's message was posted to the worker that is the current handle,
\* and no response to it has been delivered to the main thread yet.
PostedUnanswered(r) ==
    /\ LiveHandle(_worker)
    /\ reqs[r].postedTo = _worker
    /\ ~reqs[r].responded

\* How many entries of _exportQueue belong to request r.
QueueEntries(r) == Cardinality({i \in 1..Len(_exportQueue) : _exportQueue[i] = r})

\* C26 (as stated): _exportQueue holds exactly one entry for each request
\* whose message was posted to the current worker and is not yet answered,
\* and none for any other request; a request whose postMessage threw leaves
\* no entry in the queue.
C26_QueueHoldsPostedUnanswered ==
    \A r \in 1..Len(reqs) : QueueEntries(r) = IF PostedUnanswered(r) THEN 1 ELSE 0

\* C27 (as stated): a promise that is resolved holds the STL bytes computed
\* from the scene of its own request, whichever worker delivered them; a
\* message of a discarded worker does not settle a request posted to the
\* worker that replaced it.
C27_ResolvedWithOwnBytes ==
    \A r \in 1..Len(reqs) :
        reqs[r].promise = "resolved" =>
            /\ reqs[r].value.of = r
            /\ reqs[reqs[r].value.of].postedTo = reqs[r].postedTo

\* ---------------------------------- claims: the Export cache and the emboss
\* C28 (as stated): the geometry an Export-mode evaluation hands out, on a
\* hit as on a miss, is what generate produces for the node's own params, so
\* nodes that share a cache key and differ in an emboss param never get each
\* other's geometry.
C28_HitYieldsOwnGeometry ==
    \A i \in 1..Len(meshes) : meshes[i].returned = Generate(meshes[i].params)

\* ---------------------------------------- claims: the scene store's selection
\* C29 (as stated): selectedId is null or the id of a node of the current
\* scene tree, in every state the scene store reaches.
C29_SelectionIsNullOrInTree ==
    selectedId = NoSelection \/ selectedId \in SceneIds

\* ------------------------------- claims: concurrent generateAsync calls
\* C30 (as stated): no generation is pending for a key whose result is
\* cached, and no two generations are pending for one key; every pending
\* setTimeout callback runs the generator once when it fires.
C30_OneGenerationPerKey ==
    \A i \in 1..Len(agTimers) :
        /\ CachedAt(agCache, agTimers[i].key) = {}
        /\ \A j \in 1..Len(agTimers) : j # i => agTimers[j].key # agTimers[i].key

====
